---- MODULE Spec2Model ----
(***************************************************************************)
(* claude-memory: the observation store (SessionStore, a SQLite database   *)
(* driven through better-sqlite3) and the worker's HTTP handlers that call *)
(* it.  better-sqlite3 is synchronous and no handler awaits, so every      *)
(* store method and every handler runs to completion: one action each.     *)
(* Concurrent callers are interleavings of whole calls.                    *)
(***************************************************************************)
EXTENDS Integers, Sequences, FiniteSets, TLC

VARIABLES
  sessions,             \* table sessions: the rows in id order (id = index)
  observations,         \* table observations: the rows in id order
  observations_fts,     \* the FTS5 index: one entry per indexed rowid
  session_summaries,    \* table session_summaries
  user_prompts,         \* table user_prompts
  pendingObservations,  \* WorkerService.pendingObservations (in memory)
  now,                  \* the wall clock, Date.now()
  served,               \* the write requests the worker has handled
  reply,                \* what the last call returned or answered
  createdIds,           \* history: the ids createSession(s, ...) returned
  obsInput,             \* history: the object each observation row came from
  incLog,               \* history: the values incrementPromptCounter returned
  initLog,              \* history: the promptNumbers init_session answered
  hookProcs,            \* the hook processes inside ensureWorkerRunning
  workerProcs           \* the worker processes spawned, in spawn order

vars == <<sessions, observations, observations_fts, session_summaries,
          user_prompts, pendingObservations, now, served, reply,
          createdIds, obsInput, incLog, initLog, hookProcs, workerProcs>>

\* the processes of the worker's start-up
startVars == <<hookProcs, workerProcs>>

histVars == <<createdIds, obsInput, incLog, initLog>>

\* the worker's own memory
workerVars == <<pendingObservations, served>>

dbVars == <<sessions, observations, observations_fts, session_summaries,
            user_prompts>>

(***************************************************************************)
(* Bounds of the model.                                                    *)
(***************************************************************************)
MaxTime == 1
MaxCounter == 3
\* observations and summaries the store calls may write, taken together
MaxRecords == 2
MaxRequests == 3
\* the last instant of the clock that runs over several days
MaxDigestTime == 4
\* the turns of startWorker's polling loop the model follows
MaxPolls == 2

(***************************************************************************)
(* Values.  SQL NULL / JS undefined is Null in a text position and NullInt *)
(* in an integer position.                                                 *)
(***************************************************************************)
Null == "NULL"
NullInt == -1

SessionIds == {"s1", "s2"}
Projects == {"demo", "other"}
Prompts == {"", "fix login"}

Truthy(v) == v # Null /\ v # ""

\* the hook processes that may run at once
HookIds == {"h1", "h2"}

\* a hook that has not called ensureWorkerRunning yet
IdleHook == [pc |-> "idle", polls |-> 0, spawned |-> 0, result |-> "none"]

ValidTypes == {"decision", "bugfix", "feature", "refactor", "discovery", "change"}

Range(f) == {f[i] : i \in DOMAIN f}

(***************************************************************************)
(* JSON.stringify of an array of strings.                                  *)
(***************************************************************************)
RECURSIVE JoinQuoted(_)
JoinQuoted(a) ==
  IF a = <<>> THEN ""
  ELSE IF Len(a) = 1 THEN "\"" \o a[1] \o "\""
  ELSE "\"" \o a[1] \o "\"," \o JoinQuoted(Tail(a))

JSONstringify(a) == "[" \o JoinQuoted(a) \o "]"

(***************************************************************************)
(* JSON.parse of the text of an array of strings (no escapes): the reader  *)
(* walks the characters; `cur` is the string being read, `open` says       *)
(* whether the walk is inside a string.                                    *)
(***************************************************************************)
RECURSIVE ParseFrom(_, _, _, _, _)
ParseFrom(text, i, acc, cur, open) ==
  IF i > Len(text) THEN acc
  ELSE LET ch == SubSeq(text, i, i)
       IN IF open
          THEN IF ch = "\""
               THEN ParseFrom(text, i + 1, Append(acc, cur), "", FALSE)
               ELSE ParseFrom(text, i + 1, acc, cur \o ch, TRUE)
          ELSE IF ch = "\""
               THEN ParseFrom(text, i + 1, acc, "", TRUE)
               ELSE ParseFrom(text, i + 1, acc, cur, FALSE)

JSONparse(text) == ParseFrom(text, 1, <<>>, "", FALSE)

\* `obj.key || dflt` for a string-valued key of a JS object
OrElse(obj, key, dflt) ==
  IF key \in DOMAIN obj /\ Truthy(obj[key]) THEN obj[key] ELSE dflt

\* `JSON.stringify(obj.key)` without the `|| []`: NULL for a missing key
ArrayTextNoDefault(obj, key) ==
  IF key \in DOMAIN obj THEN JSONstringify(obj[key]) ELSE Null

\* `JSON.stringify(obj.key || [])` for an array-valued key (arrays are truthy)
ArrayText(obj, key) ==
  IF key \in DOMAIN obj THEN JSONstringify(obj[key]) ELSE JSONstringify(<<>>)

(***************************************************************************)
(* Rows by session_id.                                                     *)
(***************************************************************************)
RowsOf(tbl, sid) == {i \in DOMAIN tbl : tbl[i].session_id = sid}

\* .get(): the first row of the result
FirstRowOf(tbl, sid) == CHOOSE i \in RowsOf(tbl, sid) : \A j \in RowsOf(tbl, sid) : i <= j

HasSession(sid) == RowsOf(sessions, sid) # {}

\* a lookup that falls back to the first session of the table
getSessionOrFirst(sid) ==
  IF HasSession(sid)
  THEN [found |-> TRUE, id |-> FirstRowOf(sessions, sid),
        row |-> sessions[FirstRowOf(sessions, sid)]]
  ELSE IF sessions # <<>>
       THEN [found |-> TRUE, id |-> 1, row |-> sessions[1]]
       ELSE [found |-> FALSE]

\* SessionStore.getSession: the row, or undefined
getSession(sid) ==
  IF HasSession(sid)
  THEN [found |-> TRUE, id |-> FirstRowOf(sessions, sid),
        row |-> sessions[FirstRowOf(sessions, sid)]]
  ELSE [found |-> FALSE]

\* SELECT prompt_counter FROM sessions WHERE session_id = ?
PromptCounterIn(tbl, sid) ==
  IF RowsOf(tbl, sid) = {} THEN NullInt
  ELSE tbl[FirstRowOf(tbl, sid)].prompt_counter

\* SessionStore.getPromptCounter: result?.prompt_counter || 0
getPromptCounter(sid) ==
  IF PromptCounterIn(sessions, sid) = NullInt THEN 0
  ELSE PromptCounterIn(sessions, sid)

(***************************************************************************)
(* createSession: INSERT OR IGNORE, then UPDATE when the insert was        *)
(* ignored and project is truthy, then SELECT id.                          *)
(***************************************************************************)
\* the table without its UNIQUE constraint on session_id
SessionInsertAllowedNoUnique(tbl, sid, project) == project # Null

\* the constraints INSERT OR IGNORE can trip over: project NOT NULL,
\* session_id UNIQUE
SessionInsertAllowed(tbl, sid, project) ==
  project # Null /\ RowsOf(tbl, sid) = {}

NewSessionRow(sid, project, userPrompt) ==
  [session_id |-> sid, project |-> project, user_prompt |-> userPrompt,
   prompt_counter |-> 0, started_at_epoch |-> now,
   completed_at_epoch |-> NullInt, status |-> "active"]

\* INSERT OR REPLACE in place of INSERT OR IGNORE: the conflicting row is
\* written anew, its prompt counter back at the default
SessionsAfterCreateReplace(tbl, sid, project, userPrompt) ==
  IF SessionInsertAllowed(tbl, sid, project)
  THEN Append(tbl, NewSessionRow(sid, project, userPrompt))
  ELSE IF Truthy(project)
       THEN [i \in DOMAIN tbl |->
               IF tbl[i].session_id = sid
               THEN [tbl[i] EXCEPT !.project = project,
                                   !.user_prompt = userPrompt,
                                   !.prompt_counter = 0]
               ELSE tbl[i]]
       ELSE tbl

\* an UPDATE of the ignored insert that sets status = 'active' as well
SessionsAfterCreateReopen(tbl, sid, project, userPrompt) ==
  IF SessionInsertAllowed(tbl, sid, project)
  THEN Append(tbl, NewSessionRow(sid, project, userPrompt))
  ELSE IF Truthy(project)
       THEN [i \in DOMAIN tbl |->
               IF tbl[i].session_id = sid
               THEN [tbl[i] EXCEPT !.project = project,
                                   !.user_prompt = userPrompt,
                                   !.status = "active"]
               ELSE tbl[i]]
       ELSE tbl

SessionsAfterCreate(tbl, sid, project, userPrompt) ==
  IF SessionInsertAllowed(tbl, sid, project)
  THEN Append(tbl, NewSessionRow(sid, project, userPrompt))
  ELSE IF Truthy(project)
       THEN [i \in DOMAIN tbl |->
               IF tbl[i].session_id = sid
               THEN [tbl[i] EXCEPT !.project = project, !.user_prompt = userPrompt]
               ELSE tbl[i]]
       ELSE tbl

\* SELECT id FROM sessions WHERE session_id = ?  ->  session?.id
SessionIdIn(tbl, sid) ==
  IF RowsOf(tbl, sid) = {} THEN NullInt ELSE FirstRowOf(tbl, sid)

\* what a createSession(sid, project, ...) call returns, noted when the call
\* was given a project
NoteCreated(sid, project, id) ==
  IF project # Null THEN [createdIds EXCEPT ![sid] = @ \cup {id}] ELSE createdIds

(***************************************************************************)
(* incrementPromptCounter: UPDATE prompt_counter = prompt_counter + 1,     *)
(* then SELECT prompt_counter; result?.prompt_counter || 1.                *)
(***************************************************************************)
\* a lost update: the counter is written back from a value read earlier
SessionsAfterIncrementLost(tbl, sid) ==
  [i \in DOMAIN tbl |->
     IF tbl[i].session_id = sid
     THEN [tbl[i] EXCEPT !.prompt_counter = IF @ = 0 THEN 1 ELSE @]
     ELSE tbl[i]]

SessionsAfterIncrement(tbl, sid) ==
  [i \in DOMAIN tbl |->
     IF tbl[i].session_id = sid
     THEN [tbl[i] EXCEPT !.prompt_counter = @ + 1]
     ELSE tbl[i]]

\* result?.prompt_counter without the `|| 1`
IncrementResultRaw(tbl, sid) == PromptCounterIn(tbl, sid)

\* result?.prompt_counter || 1
IncrementResult(tbl, sid) ==
  IF PromptCounterIn(tbl, sid) = NullInt \/ PromptCounterIn(tbl, sid) = 0
  THEN 1
  ELSE PromptCounterIn(tbl, sid)

NoteIncrement(sid, ret) ==
  IF HasSession(sid) THEN [incLog EXCEPT ![sid] = Append(@, ret)] ELSE incLog

(***************************************************************************)
(* markSessionCompleted: UPDATE status, completed_at, completed_at_epoch.  *)
(***************************************************************************)
\* an UPDATE that stamps a session only the first time: ... WHERE
\* session_id = ? AND completed_at_epoch IS NULL
SessionsAfterCompletedOnce(tbl, sid) ==
  [i \in DOMAIN tbl |->
     IF tbl[i].session_id = sid /\ tbl[i].completed_at_epoch = NullInt
     THEN [tbl[i] EXCEPT !.status = "completed", !.completed_at_epoch = now]
     ELSE tbl[i]]

SessionsAfterCompleted(tbl, sid) ==
  [i \in DOMAIN tbl |->
     IF tbl[i].session_id = sid
     THEN [tbl[i] EXCEPT !.status = "completed", !.completed_at_epoch = now]
     ELSE tbl[i]]

(***************************************************************************)
(* The FTS5 tokenizer (unicode61) on the texts the model stores: lower     *)
(* case, split at every character that is no letter or digit.  NULL has no *)
(* tokens.                                                                 *)
(***************************************************************************)
TokenTable ==
  [t \in {Null, "[]"} |-> {}]
  @@ ("Fixed login bug" :> {"fixed", "login", "bug"})
  @@ ("Updated config" :> {"updated", "config"})
  @@ ("login timeout" :> {"login", "timeout"})
  @@ ("[\"a\",\"b\"]" :> {"a", "b"})
  @@ ("Modified auth.js" :> {"modified", "auth", "js"})
  @@ ("Executed: npm test" :> {"executed", "npm", "test"})
  @@ ("Tool: Write" :> {"tool", "write"})
  @@ ("Tool: Bash" :> {"tool", "bash"})

Tokens(text) == TokenTable[text]

(***************************************************************************)
(* storeObservation: createSession(sessionId, project, ''), then INSERT    *)
(* INTO observations; the AFTER INSERT trigger observations_ai writes the  *)
(* index entry inside the same statement.                                  *)
(***************************************************************************)
\* table observations without its CHECK(type IN (...)) constraint
ObsInsertAllowedNoCheck(sess, sid, project, type) ==
  /\ project # Null
  /\ RowsOf(sess, sid) # {}

\* project NOT NULL, type NOT NULL CHECK(type IN (...)), FOREIGN KEY(session_id)
ObsInsertAllowed(sess, sid, project, type) ==
  /\ project # Null
  /\ type \in ValidTypes
  /\ RowsOf(sess, sid) # {}

NewObservationRow(sid, project, observation, promptNumber, discoveryTokens) ==
  [session_id |-> sid,
   project |-> project,
   type |-> OrElse(observation, "type", "change"),
   title |-> OrElse(observation, "title", Null),
   subtitle |-> OrElse(observation, "subtitle", Null),
   facts |-> ArrayText(observation, "facts"),
   narrative |-> OrElse(observation, "narrative", Null),
   concepts |-> ArrayText(observation, "concepts"),
   files_read |-> ArrayText(observation, "files_read"),
   files_modified |-> ArrayText(observation, "files_modified"),
   prompt_number |-> promptNumber,
   discovery_tokens |-> discoveryTokens,
   created_at_epoch |-> now]

\* trigger observations_ai
FtsEntry(rowid, row) ==
  [rowid |-> rowid, title |-> row.title, subtitle |-> row.subtitle,
   narrative |-> row.narrative, facts |-> row.facts]

\* a store whose insert trigger is missing
FtsAfterInsertNoTrigger(fts, rowid, row) == fts

FtsAfterInsert(fts, rowid, row) == fts \cup {FtsEntry(rowid, row)}

\* storeObservation without its "Ensure session exists" step
SessionsEnsuredSkipped(tbl, sid, project) == tbl

\* this.createSession(sessionId, project, '')
SessionsEnsured(tbl, sid, project) == SessionsAfterCreate(tbl, sid, project, "")

\* INSERT OR REPLACE under a key on (session_id, title): a row of the same
\* session and title is written over
ObservationsAfterReplace(tbl, row) ==
  IF \E i \in DOMAIN tbl :
       tbl[i].session_id = row.session_id /\ tbl[i].title = row.title
  THEN [i \in DOMAIN tbl |->
          IF tbl[i].session_id = row.session_id /\ tbl[i].title = row.title
          THEN row ELSE tbl[i]] \o <<row>>
  ELSE Append(tbl, row)

\* INSERT INTO observations: a new row with the next id
ObservationsAfterInsert(tbl, row) == Append(tbl, row)

\* the three tables after storeObservation, and whether the INSERT went through
StoreObservationResult(sid, project, observation, promptNumber, discoveryTokens) ==
  LET sess == SessionsEnsured(sessions, sid, project)
      row == NewObservationRow(sid, project, observation, promptNumber,
                               discoveryTokens)
      ok == ObsInsertAllowed(sess, sid, project, row.type)
      id == Len(observations) + 1
  IN [ok |-> ok,
      id |-> IF ok THEN id ELSE NullInt,
      sessions |-> sess,
      observations |-> IF ok THEN ObservationsAfterInsert(observations, row)
                       ELSE observations,
      fts |-> IF ok THEN FtsAfterInsert(observations_fts, id, row)
              ELSE observations_fts]

ArrayColumns == {"facts", "concepts", "files_read", "files_modified"}

\* a TEXT column comes back from better-sqlite3 as a JavaScript string
JsOfText(text) == [typeof |-> "string", value |-> text]

\* the row object SELECT * yields, with the JavaScript type of the four
\* columns that hold serialized arrays
RowAsJs(row) ==
  [row EXCEPT !.facts = JsOfText(@), !.concepts = JsOfText(@),
              !.files_read = JsOfText(@), !.files_modified = JsOfText(@)]

\* SessionStore.getObservationById: SELECT * FROM observations WHERE id = ?
getObservationById(id) ==
  IF id \in DOMAIN observations
  THEN [found |-> TRUE, id |-> id, row |-> RowAsJs(observations[id])]
  ELSE [found |-> FALSE]

(***************************************************************************)
(* searchObservations: observations JOIN observations_fts ON rowid WHERE   *)
(* MATCH query [AND project = ?] ORDER BY created_at_epoch DESC LIMIT ?.   *)
(* The query is one bare term.  SQL leaves the order of rows with equal    *)
(* created_at_epoch open: every order is a possible result.                *)
(***************************************************************************)
DefaultSearchLimit == 20

\* an index that leaves the title column out
EntryMatchesNoTitle(e, query) ==
  query \in (Tokens(e.subtitle) \cup Tokens(e.narrative) \cup Tokens(e.facts))

EntryMatches(e, query) ==
  query \in (Tokens(e.title) \cup Tokens(e.subtitle) \cup Tokens(e.narrative)
             \cup Tokens(e.facts))

\* the search without its project clause
SearchRowsNoProject(query, project) ==
  {i \in DOMAIN observations :
     \E e \in observations_fts : e.rowid = i /\ EntryMatches(e, query)}

SearchRows(query, project) ==
  {i \in DOMAIN observations :
     /\ \E e \in observations_fts : e.rowid = i /\ EntryMatches(e, query)
     /\ Truthy(project) => observations[i].project = project}

\* the orders ORDER BY created_at_epoch DESC allows for the rows `ids` of `tbl`
DescOrders(tbl, ids) ==
  {s \in [1..Cardinality(ids) -> ids] :
     /\ \A k, l \in DOMAIN s : k # l => s[k] # s[l]
     /\ \A k, l \in DOMAIN s : k < l =>
          tbl[s[k]].created_at_epoch >= tbl[s[l]].created_at_epoch}

\* LIMIT n (a negative n is no limit)
Limited(s, n) ==
  IF n < 0 \/ n >= Len(s) THEN s ELSE SubSeq(s, 1, n)

\* a search that cuts the ordered matches of all projects to the limit
\* first and applies the project clause afterwards
searchObservationsLimitFirst(query, project, limit) ==
  {SelectSeq(Limited(s, limit),
             LAMBDA i : Truthy(project) => observations[i].project = project) :
     s \in DescOrders(observations, SearchRowsNoProject(query, project))}

\* the id sequences searchObservations may return
searchObservations(query, project, limit) ==
  {Limited(s, limit) : s \in DescOrders(observations, SearchRows(query, project))}

(***************************************************************************)
(* getRecentObservations, getRecentSummaries: SELECT * WHERE project = ?   *)
(* ORDER BY created_at_epoch DESC LIMIT ?.                                 *)
(***************************************************************************)
DefaultObservationLimit == 50
DefaultSummaryLimit == 10

\* the rows of every project: the query without its WHERE clause
RowsOfAnyProject(tbl, project) == DOMAIN tbl

\* WHERE project = ?
RowsOfProject(tbl, project) == {i \in DOMAIN tbl : tbl[i].project = project}

\* the id sequences the two queries may return
RecentRows(tbl, project, limit) ==
  {Limited(s, limit) : s \in DescOrders(tbl, RowsOfProject(tbl, project))}

getRecentObservations(project, limit) == RecentRows(observations, project, limit)

getRecentSummaries(project, limit) == RecentRows(session_summaries, project, limit)

(***************************************************************************)
(* storeSummary: createSession(sessionId, project, ''), then INSERT INTO   *)
(* session_summaries.                                                      *)
(***************************************************************************)
\* project NOT NULL, FOREIGN KEY(session_id)
SummaryInsertAllowed(sess, sid, project) ==
  /\ project # Null
  /\ RowsOf(sess, sid) # {}

NewSummaryRow(sid, project, summary, promptNumber, discoveryTokens) ==
  [session_id |-> sid,
   project |-> project,
   request |-> OrElse(summary, "request", Null),
   investigated |-> OrElse(summary, "investigated", Null),
   learned |-> OrElse(summary, "learned", Null),
   completed |-> OrElse(summary, "completed", Null),
   next_steps |-> OrElse(summary, "next_steps", Null),
   notes |-> OrElse(summary, "notes", Null),
   prompt_number |-> promptNumber,
   discovery_tokens |-> discoveryTokens,
   created_at_epoch |-> now]

StoreSummaryResult(sid, project, summary, promptNumber, discoveryTokens) ==
  LET sess == SessionsEnsured(sessions, sid, project)
      ok == SummaryInsertAllowed(sess, sid, project)
  IN [ok |-> ok,
      id |-> IF ok THEN Len(session_summaries) + 1 ELSE NullInt,
      sessions |-> sess,
      summaries |-> IF ok
                    THEN Append(session_summaries,
                                NewSummaryRow(sid, project, summary,
                                              promptNumber, discoveryTokens))
                    ELSE session_summaries]

\* saveUserPrompt: INSERT INTO user_prompts
PromptsAfterSave(tbl, sid, promptNumber, promptText) ==
  Append(tbl, [session_id |-> sid, prompt_number |-> promptNumber,
               prompt_text |-> promptText, created_at_epoch |-> now])

(***************************************************************************)
(* The calls the model makes.                                              *)
(***************************************************************************)
ObsLogin ==
  [type |-> "bugfix", title |-> "Fixed login bug", narrative |-> "login timeout",
   facts |-> <<"a", "b">>, files_modified |-> <<"src/auth.js">>]

ObsFoo == [type |-> "foo", title |-> "Updated config"]

ObsBare == [title |-> "Updated config"]

SumAuth ==
  [request |-> "Fix authentication issue", completed |-> "Extended token lifetime"]

\* a summary with no field set
SumEmpty == [x \in {} |-> Null]

ObsCall(sid, project, observation, promptNumber, discoveryTokens) ==
  [sid |-> sid, project |-> project, observation |-> observation,
   promptNumber |-> promptNumber, discoveryTokens |-> discoveryTokens]

\* storeObservation calls (promptNumber null and discoveryTokens 0 are the
\* defaults of the signature)
StoreObsCalls ==
  {ObsCall("s1", "demo", ObsLogin, 1, 6),
   ObsCall("s2", "other", ObsLogin, NullInt, 0),
   ObsCall("s1", "demo", ObsBare, NullInt, 0),
   ObsCall("s1", "other", ObsFoo, NullInt, 0),
   ObsCall("s2", Null, ObsBare, NullInt, 0)}

SumCall(sid, project, summary, promptNumber, discoveryTokens) ==
  [sid |-> sid, project |-> project, summary |-> summary,
   promptNumber |-> promptNumber, discoveryTokens |-> discoveryTokens]

StoreSumCalls ==
  {SumCall("s1", "demo", SumAuth, 1, 0),
   SumCall("s2", "other", SumEmpty, NullInt, 0)}

CreateCall(sid, project, userPrompt) ==
  [sid |-> sid, project |-> project, userPrompt |-> userPrompt]

CreateCalls ==
  {CreateCall("s1", "demo", "fix login"),
   CreateCall("s1", "other", ""),
   CreateCall("s1", "", "fix login"),
   CreateCall("s2", "demo", ""),
   CreateCall("s2", Null, "fix login")}

Queries == {"login", "timeout", "a", "config"}

Limits == {1, DefaultSearchLimit}

SearchCall(query, project, limit) ==
  [query |-> query, project |-> project, limit |-> limit]

SearchCalls ==
  {SearchCall("login", "demo", DefaultSearchLimit),
   SearchCall("timeout", "other", 1),
   SearchCall("config", Null, DefaultSearchLimit)}

RecentCall(project, limit) == [project |-> project, limit |-> limit]

RecentObsCalls ==
  {RecentCall("demo", 1), RecentCall("other", DefaultObservationLimit)}

RecentSumCalls ==
  {RecentCall("demo", 1), RecentCall("other", DefaultSummaryLimit)}

Init ==
  /\ sessions = <<>>
  /\ observations = <<>>
  /\ observations_fts = {}
  /\ session_summaries = <<>>
  /\ user_prompts = <<>>
  /\ pendingObservations = [s \in {} |-> <<>>]
  /\ now = 0
  /\ served = 0
  /\ reply = [op |-> "none"]
  /\ createdIds = [s \in SessionIds |-> {}]
  /\ obsInput = <<>>
  /\ incLog = [s \in SessionIds |-> <<>>]
  /\ initLog = [s \in SessionIds |-> <<>>]
  /\ hookProcs = [h \in HookIds |-> IdleHook]
  /\ workerProcs = <<>>

\* the clock moves on between calls
Tick ==
  /\ now < MaxTime
  /\ now' = now + 1
  /\ UNCHANGED <<dbVars, workerVars, reply, histVars, startVars>>

(***************************************************************************)
(* The methods of SessionStore, called by any client in any order.         *)
(***************************************************************************)
CreateSession(sid, project, userPrompt) ==
  /\ sessions' = SessionsAfterCreate(sessions, sid, project, userPrompt)
  /\ reply' = [op |-> "createSession", sid |-> sid,
               ret |-> SessionIdIn(sessions', sid)]
  /\ createdIds' = NoteCreated(sid, project, SessionIdIn(sessions', sid))
  /\ UNCHANGED <<observations, observations_fts, session_summaries,
                 user_prompts, workerVars, now, startVars, obsInput, incLog,
                 initLog>>

\* a lookup that creates the session it does not find
GetSessionCreating(sid) ==
  /\ sessions' = SessionsAfterCreate(sessions, sid, "unknown-project", "")
  /\ reply' = [op |-> "getSession", sid |-> sid, ret |-> getSession(sid)]
  /\ UNCHANGED <<observations, observations_fts, session_summaries,
                 user_prompts, workerVars, now, startVars, histVars>>

GetSession(sid) ==
  /\ reply' = [op |-> "getSession", sid |-> sid, ret |-> getSession(sid)]
  /\ UNCHANGED <<dbVars, workerVars, now, startVars, histVars>>

IncrementPromptCounter(sid) ==
  /\ getPromptCounter(sid) < MaxCounter
  /\ sessions' = SessionsAfterIncrement(sessions, sid)
  /\ reply' = [op |-> "incrementPromptCounter", sid |-> sid,
               ret |-> IncrementResult(sessions', sid)]
  /\ incLog' = NoteIncrement(sid, IncrementResult(sessions', sid))
  /\ UNCHANGED <<observations, observations_fts, session_summaries,
                 user_prompts, workerVars, now, startVars, createdIds, obsInput,
                 initLog>>

MarkSessionCompleted(sid) ==
  /\ sessions' = SessionsAfterCompleted(sessions, sid)
  /\ reply' = [op |-> "markSessionCompleted", sid |-> sid]
  /\ UNCHANGED <<observations, observations_fts, session_summaries,
                 user_prompts, workerVars, now, startVars, histVars>>

StoreObservation(c) ==
  LET r == StoreObservationResult(c.sid, c.project, c.observation,
                                  c.promptNumber, c.discoveryTokens)
  IN /\ Len(observations) + Len(session_summaries) < MaxRecords
     /\ sessions' = r.sessions
     /\ observations' = r.observations
     /\ observations_fts' = r.fts
     /\ obsInput' = IF r.ok THEN Append(obsInput, c.observation) ELSE obsInput
     /\ createdIds' = NoteCreated(c.sid, c.project, SessionIdIn(r.sessions, c.sid))
     /\ reply' = [op |-> "storeObservation", call |-> c,
                  existed |-> HasSession(c.sid), ok |-> r.ok, id |-> r.id]
     /\ UNCHANGED <<session_summaries, user_prompts, workerVars, now, startVars,
                    incLog, initLog>>

StoreSummary(c) ==
  LET r == StoreSummaryResult(c.sid, c.project, c.summary, c.promptNumber,
                              c.discoveryTokens)
  IN /\ Len(observations) + Len(session_summaries) < MaxRecords
     /\ sessions' = r.sessions
     /\ session_summaries' = r.summaries
     /\ createdIds' = NoteCreated(c.sid, c.project, SessionIdIn(r.sessions, c.sid))
     /\ reply' = [op |-> "storeSummary", call |-> c,
                  existed |-> HasSession(c.sid), ok |-> r.ok, id |-> r.id]
     /\ UNCHANGED <<observations, observations_fts, user_prompts,
                    workerVars, now, startVars, obsInput, incLog, initLog>>

GetObservationById(id) ==
  /\ reply' = [op |-> "getObservationById", ret |-> getObservationById(id)]
  /\ UNCHANGED <<dbVars, workerVars, now, startVars, histVars>>

SearchObservations(query, project, limit) ==
  /\ \E r \in searchObservations(query, project, limit) :
       reply' = [op |-> "searchObservations",
                 call |-> SearchCall(query, project, limit), ret |-> r]
  /\ UNCHANGED <<dbVars, workerVars, now, startVars, histVars>>

GetRecentObservations(project, limit) ==
  /\ \E r \in getRecentObservations(project, limit) :
       reply' = [op |-> "getRecentObservations",
                 call |-> RecentCall(project, limit), ret |-> r]
  /\ UNCHANGED <<dbVars, workerVars, now, startVars, histVars>>

GetRecentSummaries(project, limit) ==
  /\ \E r \in getRecentSummaries(project, limit) :
       reply' = [op |-> "getRecentSummaries",
                 call |-> RecentCall(project, limit), ret |-> r]
  /\ UNCHANGED <<dbVars, workerVars, now, startVars, histVars>>

(***************************************************************************)
(* Strings as JavaScript handles them.                                     *)
(***************************************************************************)
Min(a, b) == IF a <= b THEN a ELSE b

\* s.substring(0, n)
Substring0(s, n) == SubSeq(s, 1, Min(n, Len(s)))

\* s.includes(t)
Includes(s, t) ==
  \E i \in 1..(Len(s) - Len(t) + 1) : SubSeq(s, i, i + Len(t) - 1) = t

RECURSIVE StripTrailingSlashes(_)
StripTrailingSlashes(p) ==
  IF Len(p) > 1 /\ SubSeq(p, Len(p), Len(p)) = "/"
  THEN StripTrailingSlashes(SubSeq(p, 1, Len(p) - 1))
  ELSE p

\* path.basename(p)
Basename(p) ==
  LET q == StripTrailingSlashes(p)
      slashes == {i \in 1..Len(q) : SubSeq(q, i, i) = "/"}
      last == CHOOSE i \in slashes : \A j \in slashes : j <= i
  IN IF slashes = {} THEN q ELSE SubSeq(q, last + 1, Len(q))

\* s.split('\n')[0]
FirstLine(s) ==
  LET breaks == {i \in 1..Len(s) : SubSeq(s, i, i) = "\n"}
      first == CHOOSE i \in breaks : \A j \in breaks : i <= j
  IN IF breaks = {} THEN s ELSE SubSeq(s, 1, first - 1)

\* obj?.key for a string-valued key
Field(obj, key) == IF key \in DOMAIN obj THEN obj[key] ELSE Null

(***************************************************************************)
(* WorkerService.createSimpleObservation and createSimpleSummary.          *)
(***************************************************************************)
SkipTools == {"Read", "LS", "Glob"}

RequestLineMax == 100
CompletedMax == 200
CommandTitleMax == 40

Skipped(tool_name) ==
  tool_name # Null /\ \E t \in SkipTools : Includes(tool_name, t)

\* the type a tool use is given, were it taken from the tool name as it is
SimpleObservationTypeRaw(tool_name) ==
  IF tool_name = Null THEN "change" ELSE tool_name

\* every branch of the type computation assigns 'change'
SimpleObservationType(tool_name) == "change"

\* a title that carries the whole command
SimpleObservationTitleUncut(tool_name, tool_input) ==
  IF Truthy(Field(tool_input, "file_path"))
  THEN "Modified " \o Basename(tool_input.file_path)
  ELSE IF Truthy(Field(tool_input, "command"))
       THEN "Executed: " \o tool_input.command
       ELSE IF Truthy(tool_name) THEN tool_name ELSE "Tool execution"

SimpleObservationTitle(tool_name, tool_input) ==
  IF Truthy(Field(tool_input, "file_path"))
  THEN "Modified " \o Basename(tool_input.file_path)
  ELSE IF Truthy(Field(tool_input, "command"))
       THEN "Executed: " \o Substring0(tool_input.command, CommandTitleMax)
       ELSE IF Truthy(tool_name) THEN tool_name ELSE "Tool execution"

SimpleObservationFiles(tool_input) ==
  (IF Truthy(Field(tool_input, "file_path")) THEN <<tool_input.file_path>> ELSE <<>>)
  \o (IF Truthy(Field(tool_input, "target_file")) THEN <<tool_input.target_file>>
      ELSE <<>>)

\* the observation object (the caller skips the store when the tool is filtered)
createSimpleObservation(tool_name, tool_input) ==
  [type |-> SimpleObservationType(tool_name),
   title |-> SimpleObservationTitle(tool_name, tool_input),
   subtitle |-> "Tool: " \o tool_name,
   facts |-> <<>>,
   narrative |-> Null,
   concepts |-> <<"what-changed">>,
   files_read |-> <<>>,
   files_modified |-> SimpleObservationFiles(tool_input)]

\* null when there is no assistant message
HasSimpleSummary(assistantMessage) == Truthy(assistantMessage)

\* a summary whose request is taken from the assistant message alone
createSimpleSummaryOfReply(assistantMessage, userMessage) ==
  [request |-> Substring0(FirstLine(assistantMessage), RequestLineMax),
   investigated |-> Null,
   learned |-> Null,
   completed |-> Substring0(assistantMessage, CompletedMax),
   next_steps |-> Null,
   notes |-> Null]

createSimpleSummary(assistantMessage, userMessage) ==
  [request |-> Substring0(FirstLine(IF Truthy(userMessage) THEN userMessage
                                    ELSE assistantMessage), RequestLineMax),
   investigated |-> Null,
   learned |-> Null,
   completed |-> Substring0(assistantMessage, CompletedMax),
   next_steps |-> Null,
   notes |-> Null]

(***************************************************************************)
(* The context generator: generateContext(project) and its helpers.  An    *)
(* instant is a tick of the clock; TicksPerDay ticks make a calendar day.  *)
(* formatDate renders weekday, month and day of month and no year, so the  *)
(* label of a day comes back on a later day (in the calendar, years later; *)
(* here after DaysPerLabelCycle days).                                     *)
(***************************************************************************)
ContextObservations == 50
ContextSummaries == 10
CharsPerToken == 4
TokensPerK == 1000
TicksPerDay == 2
DaysPerLabelCycle == 2

NoFile == "(no file)"
Untitled == "Untitled"

\* the calendar day an instant lies in
DayOf(t) == t \div TicksPerDay

\* toLocaleDateString('en-US', {weekday, month, day})
formatDate(t) == DayOf(t) % DaysPerLabelCycle

\* toLocaleTimeString('en-US', {hour, minute})
formatTime(t) == t % TicksPerDay

\* parseJsonArray: [] for an empty or missing text
parseJsonArray(str) == IF Truthy(str) THEN JSONparse(str) ELSE <<>>

\* s.startsWith(t)
StartsWith(s, t) == Len(t) <= Len(s) /\ SubSeq(s, 1, Len(t)) = t

\* s.substring(n)
SubstringFrom(s, n) == IF n >= Len(s) THEN "" ELSE SubSeq(s, n + 1, Len(s))

\* extractFirstFile that shows the last path of the list
extractLastFile(filesJson, cwd) ==
  LET files == parseJsonArray(filesJson)
  IN IF Len(files) = 0 THEN NoFile ELSE files[Len(files)]

extractFirstFile(filesJson, cwd) ==
  LET files == parseJsonArray(filesJson)
      file == IF Truthy(cwd) /\ StartsWith(files[1], cwd)
              THEN SubstringFrom(files[1], Len(cwd) + 1)
              ELSE files[1]
  IN IF Len(files) = 0 THEN NoFile
     ELSE IF file = "" THEN NoFile ELSE file

\* Math.ceil(a / b) and Math.round(a / b) for a >= 0, b > 0
CeilDiv(a, b) == (a + b - 1) \div b

RoundDiv(a, b) == (2 * a + b) \div (2 * b)

\* v?.length || 0
LengthOf(v) == IF v = Null THEN 0 ELSE Len(v)

RECURSIVE SumSeq(_)
SumSeq(s) == IF s = <<>> THEN 0 ELSE Head(s) + SumSeq(Tail(s))

\* the characters of an observation the digest counts
ReadSize(row) ==
  LengthOf(row.title) + LengthOf(row.subtitle) + LengthOf(row.narrative)
  + LengthOf(row.facts)

\* one rounding, applied to the characters of all observations together
TotalReadTokensOneRounding(fetched) ==
  CeilDiv(SumSeq([k \in DOMAIN fetched |-> ReadSize(observations[fetched[k]])]),
          CharsPerToken)

\* observations.reduce((sum, obs) => sum + Math.ceil(size / 4), 0)
TotalReadTokens(fetched) ==
  SumSeq([k \in DOMAIN fetched |->
            CeilDiv(ReadSize(observations[fetched[k]]), CharsPerToken)])

\* observations.reduce((sum, obs) => sum + (obs.discovery_tokens || 0), 0)
TotalDiscoveryTokens(fetched) ==
  SumSeq([k \in DOMAIN fetched |->
            IF observations[fetched[k]].discovery_tokens = NullInt THEN 0
            ELSE observations[fetched[k]].discovery_tokens])

\* Array.prototype.sort with the comparator (a, b) => key[a] - key[b]; the
\* sort is stable
RECURSIVE SortBy(_, _)
SortBy(s, key) ==
  IF s = <<>> THEN <<>>
  ELSE LET rest == SortBy(SubSeq(s, 1, Len(s) - 1), key)
           x == s[Len(s)]
           keep == Cardinality({k \in DOMAIN rest : key[rest[k]] <= key[x]})
       IN SubSeq(rest, 1, keep) \o <<x>> \o SubSeq(rest, keep + 1, Len(rest))

EpochOf(i) == observations[i].created_at_epoch

\* the Map observationsByDay: one group per date label, in the order the
\* labels first appear; a group lists its observations in fetch order
observationsByDay(fetched) ==
  LET firsts == SelectSeq([k \in DOMAIN fetched |-> k],
                          LAMBDA k : \A l \in 1..(k - 1) :
                            formatDate(EpochOf(fetched[l]))
                              # formatDate(EpochOf(fetched[k])))
  IN [g \in DOMAIN firsts |->
        SelectSeq(fetched,
                  LAMBDA i : formatDate(EpochOf(i))
                               = formatDate(EpochOf(fetched[firsts[g]])))]

\* the groups by the creation time of their first observation, latest first
sortedDays(fetched) ==
  LET groups == observationsByDay(fetched)
  IN SortBy(groups, [g \in Range(groups) |-> 0 - EpochOf(g[1])])

\* dayObs.sort((a, b) => a.created_at_epoch - b.created_at_epoch)
dayObsSorted(group) == SortBy(group, [i \in Range(group) |-> EpochOf(i)])

\* TYPE_ICON_MAP[obs.type] || bullet, the icons by name
TypeIcon(type) ==
  CASE type = "bugfix" -> "red circle"
    [] type = "feature" -> "purple circle"
    [] type = "refactor" -> "arrows"
    [] type = "change" -> "check mark"
    [] type = "discovery" -> "blue circle"
    [] type = "decision" -> "scales"
    [] OTHER -> "bullet"

\* the heading of a day and its table rows; a row repeats the time of the
\* row before it as a ditto mark
DayLines(group) ==
  LET dayObs == dayObsSorted(group)
  IN <<[kind |-> "day", day |-> formatDate(EpochOf(dayObs[1]))]>>
     \o [k \in DOMAIN dayObs |->
           [kind |-> "row",
            id |-> dayObs[k],
            ditto |-> (k > 1 /\ formatTime(EpochOf(dayObs[k]))
                                  = formatTime(EpochOf(dayObs[k - 1]))),
            time |-> formatTime(EpochOf(dayObs[k])),
            icon |-> TypeIcon(observations[dayObs[k]].type),
            title |-> IF Truthy(observations[dayObs[k]].title)
                      THEN observations[dayObs[k]].title ELSE Untitled,
            file |-> extractFirstFile(observations[dayObs[k]].files_modified,
                                      "")]]

RECURSIVE Flatten(_)
Flatten(ss) == IF ss = <<>> THEN <<>> ELSE Head(ss) \o Flatten(Tail(ss))

HeaderLine(project) ==
  [kind |-> "header", text |-> "# [" \o project \o "] recent context"]

EmptyState(project) ==
  <<HeaderLine(project),
    [kind |-> "text",
     text |-> "No previous sessions found for this project yet."]>>

\* the "Context Economics" block
EconomicsLines(fetched) ==
  LET read == TotalReadTokens(fetched)
      discovery == TotalDiscoveryTokens(fetched)
      savings == discovery - read
  IN <<[kind |-> "loading", observations |-> Len(fetched), tokens |-> read],
       [kind |-> "investment", tokens |-> discovery]>>
     \o IF savings > 0
        THEN <<[kind |-> "savings", tokens |-> savings,
                percent |-> RoundDiv(savings * 100, discovery)]>>
        ELSE <<>>

\* a block built from the last of the fetched summaries, the oldest
SummaryLinesOldest(sums) ==
  IF Len(sums) = 0 THEN <<>>
  ELSE LET oldest == session_summaries[sums[Len(sums)]]
       IN <<[kind |-> "summary"]>>
          \o (IF Truthy(oldest.request)
              THEN <<[kind |-> "request", text |-> oldest.request]>>
              ELSE <<>>)
          \o (IF Truthy(oldest.completed)
              THEN <<[kind |-> "completed", text |-> oldest.completed]>>
              ELSE <<>>)
          \o (IF Truthy(oldest.next_steps)
              THEN <<[kind |-> "next_steps", text |-> oldest.next_steps]>>
              ELSE <<>>)

\* "Last Session Summary": the fields of the most recent summary that are set
SummaryLines(sums) ==
  IF Len(sums) = 0 THEN <<>>
  ELSE LET mostRecent == session_summaries[sums[1]]
       IN <<[kind |-> "summary"]>>
          \o (IF Truthy(mostRecent.request)
              THEN <<[kind |-> "request", text |-> mostRecent.request]>>
              ELSE <<>>)
          \o (IF Truthy(mostRecent.completed)
              THEN <<[kind |-> "completed", text |-> mostRecent.completed]>>
              ELSE <<>>)
          \o (IF Truthy(mostRecent.next_steps)
              THEN <<[kind |-> "next_steps", text |-> mostRecent.next_steps]>>
              ELSE <<>>)

\* a footer shown whenever any discovery tokens were recorded
FooterLinesAnyInvestment(fetched) ==
  LET read == TotalReadTokens(fetched)
      discovery == TotalDiscoveryTokens(fetched)
  IN IF discovery > 0
     THEN <<[kind |-> "footer", work |-> RoundDiv(discovery, TokensPerK),
             tokens |-> read]>>
     ELSE <<>>

FooterLines(fetched) ==
  LET read == TotalReadTokens(fetched)
      discovery == TotalDiscoveryTokens(fetched)
  IN IF discovery > 0 /\ discovery - read > 0
     THEN <<[kind |-> "footer", work |-> RoundDiv(discovery, TokensPerK),
             tokens |-> read]>>
     ELSE <<>>

\* an empty state shown when either list is empty
IsEmptyStateEither(fetched, sums) == Len(fetched) = 0 \/ Len(sums) = 0

\* observations.length === 0 && summaries.length === 0
IsEmptyState(fetched, sums) == Len(fetched) = 0 /\ Len(sums) = 0

\* the lines of the digest; blank lines and the fixed legend, instruction
\* and table-head lines carry nothing of the store and are left out
Digest(project, fetched, sums) ==
  IF IsEmptyState(fetched, sums) THEN EmptyState(project)
  ELSE <<HeaderLine(project)>>
       \o EconomicsLines(fetched)
       \o Flatten([g \in DOMAIN sortedDays(fetched) |->
                     DayLines(sortedDays(fetched)[g])])
       \o SummaryLines(sums)
       \o FooterLines(fetched)

\* the digests generateContext(project) may return
generateContext(project) ==
  {Digest(project, fetched, sums) :
     fetched \in getRecentObservations(project, ContextObservations),
     sums \in getRecentSummaries(project, ContextSummaries)}

(***************************************************************************)
(* The requests the model sends to the worker.                             *)
(***************************************************************************)
InitBody(sessionId, project, userPrompt) ==
  [sessionId |-> sessionId, project |-> project, userPrompt |-> userPrompt]

InitBodies ==
  {InitBody("s1", "demo", "fix login"),
   InitBody("s1", "other", ""),
   InitBody("s2", "other", "fix login"),
   InitBody(Null, "demo", "fix login"),
   InitBody("s1", Null, "fix login")}

ObsBody(claudeSessionId, tool_name, tool_input, cwd) ==
  [claudeSessionId |-> claudeSessionId, tool_name |-> tool_name,
   tool_input |-> tool_input, cwd |-> cwd]

ObsBodies ==
  {ObsBody("s1", "Write", [file_path |-> "/repo/demo/src/auth.js"], "/repo/demo"),
   ObsBody("s1", "Read", [file_path |-> "/repo/demo/README.md"], "/repo/demo"),
   ObsBody("s2", "Bash", [command |-> "npm test"], Null),
   ObsBody(Null, "Write", [file_path |-> "/repo/demo/src/auth.js"], "/repo/demo")}

SumBody(claudeSessionId, last_user_message, last_assistant_message) ==
  [claudeSessionId |-> claudeSessionId, last_user_message |-> last_user_message,
   last_assistant_message |-> last_assistant_message]

\* a user message of two lines
TwoLineRequest == "Fix authentication issue\nThe token expires too early"

\* an assistant message of two lines, the first longer than RequestLineMax
\* and the whole longer than CompletedMax
LongReply ==
  "Extended the lifetime of the access token from fifteen "
  \o "minutes to one hour and added a refresh path for expired tokens"
  \o "\n"
  \o "The login test now passes; the refresh endpoint "
  \o "still needs a test of its own and the old cookie can go"

SumBodies ==
  {SumBody("s1", TwoLineRequest, "Extended token lifetime"),
   SumBody("s2", Null, LongReply),
   SumBody("s1", "Fix authentication issue", Null),
   SumBody(Null, "Fix authentication issue", "Extended token lifetime")}

(***************************************************************************)
(* What the hooks read from standard input.                                *)
(***************************************************************************)
PrivateTag == "<private>"
ContextTag == "<claude-memory-context>"

ToolUse(session_id, cwd, tool_name, tool_input, tool_response) ==
  [session_id |-> session_id, cwd |-> cwd, tool_name |-> tool_name,
   tool_input |-> tool_input, tool_response |-> tool_response]

\* a command longer than CommandTitleMax
LongCommand == "npm run test -- --runInBand --coverage --verbose"

\* the digest as the context hook hands it to the agent
InjectedDigest ==
  ContextTag \o "\n# [demo] recent context\n</claude-memory-context>"

SaveHookInputs ==
  {ToolUse("s1", "/repo/demo", "Edit",
           [file_path |-> "/repo/demo/src/auth.js"], "ok"),
   ToolUse("s1", "/repo/demo", "Glob", [pattern |-> "*.js"], "src/auth.js"),
   ToolUse("s1", "/repo/demo", "GlobalReplace",
           [file_path |-> "/repo/demo/src/auth.js"], "ok"),
   ToolUse("s2", Null, "Bash", [command |-> LongCommand], "passed"),
   ToolUse("s2", "/repo/other", "WebFetch", [url |-> "https://example.com"],
           "page"),
   ToolUse("s1", "/repo/demo", "Write",
           [file_path |-> "/repo/demo/.env",
            content |-> "<private>API_KEY=abc</private>"], "ok"),
   ToolUse("s1", "/repo/demo", "Bash", [command |-> "cat notes"],
           InjectedDigest)}

Prompt(session_id, cwd, user_prompt) ==
  [session_id |-> session_id, cwd |-> cwd, user_prompt |-> user_prompt]

NewHookInputs ==
  {Prompt("s1", "/repo/demo", "fix login"),
   Prompt("s1", "/repo/demo", "<private>the token is abc</private> fix login"),
   Prompt(Null, "/repo/demo", "fix login")}

\* the body the save hook posts to /api/sessions/observations
BodyOfToolUse(i) == ObsBody(i.session_id, i.tool_name, i.tool_input, i.cwd)

\* every body of an observation request the model sends
AllObsBodies == ObsBodies \cup {BodyOfToolUse(i) : i \in SaveHookInputs}

\* cwd ? path.basename(cwd) : 'unknown-project'
ProjectOfCwd(cwd) == IF Truthy(cwd) THEN Basename(cwd) ELSE "unknown-project"

\* the pure parts of the handlers, worked out once per request body
SimpleObservationOf ==
  [b \in AllObsBodies |-> createSimpleObservation(b.tool_name, b.tool_input)]

SkippedBody == [b \in AllObsBodies |-> Skipped(b.tool_name)]

ProjectOfBody == [b \in AllObsBodies |-> ProjectOfCwd(b.cwd)]

SimpleSummaryOf ==
  [b \in {c \in SumBodies : HasSimpleSummary(c.last_assistant_message)} |->
     createSimpleSummary(b.last_assistant_message, b.last_user_message)]

(***************************************************************************)
(* POST /api/sessions/init                                                 *)
(***************************************************************************)
\* a validation that asks for the session id only
InitRejectedById(b) == ~Truthy(b.sessionId)

\* if (!sessionId || !project)
InitRejected(b) == ~Truthy(b.sessionId) \/ ~Truthy(b.project)

InitSession(b) ==
  IF InitRejected(b)
  THEN /\ reply' = [op |-> "init_session", status |-> 400, body |-> b]
       /\ UNCHANGED <<dbVars, workerVars, now, startVars, histVars>>
  ELSE LET sess1 == SessionsAfterCreate(sessions, b.sessionId, b.project,
                                        b.userPrompt)
           dbId == SessionIdIn(sess1, b.sessionId)
           sess2 == SessionsAfterIncrement(sess1, b.sessionId)
           promptNumber == IncrementResult(sess2, b.sessionId)
       IN /\ served < MaxRequests
          /\ served' = served + 1
          /\ sessions' = sess2
          /\ user_prompts' =
               IF Truthy(b.userPrompt)
               THEN PromptsAfterSave(user_prompts, b.sessionId, promptNumber,
                                     b.userPrompt)
               ELSE user_prompts
          /\ pendingObservations' =
               IF b.sessionId \in DOMAIN pendingObservations
               THEN pendingObservations
               ELSE pendingObservations @@ (b.sessionId :> <<>>)
          /\ createdIds' = NoteCreated(b.sessionId, b.project, dbId)
          /\ initLog' = [initLog EXCEPT ![b.sessionId] = Append(@, promptNumber)]
          /\ reply' = [op |-> "init_session", status |-> 200, body |-> b,
                       dbId |-> dbId,
                       promptNumber |-> promptNumber]
          /\ UNCHANGED <<observations, observations_fts, session_summaries,
                         now, startVars, obsInput, incLog>>

(***************************************************************************)
(* POST /api/sessions/observations, with processObservation, which the     *)
(* handler calls without awaiting and which runs to its end before the     *)
(* handler replies (it awaits nothing); it catches and logs a store error. *)
(* `fault` says whether the engine fails the INSERT of the observation     *)
(* (disk full, I/O error, lock timeout): better-sqlite3 then throws out of *)
(* storeObservation, after its createSession statement has run.            *)
(***************************************************************************)
\* a push that sets the session's queue anew on every request
QueueAfterPushFresh(q, sid, entry) ==
  [s \in DOMAIN q \cup {sid} |-> IF s = sid THEN <<entry>> ELSE q[s]]

\* if (!pendingObservations.has(sid)) pendingObservations.set(sid, []);
\* pendingObservations.get(sid).push(entry)
QueueAfterPush(q, sid, entry) ==
  [s \in DOMAIN q \cup {sid} |->
     IF s = sid
     THEN Append(IF sid \in DOMAIN q THEN q[sid] ELSE <<>>, entry)
     ELSE q[s]]

HandleObservation(b, fault) ==
  IF ~Truthy(b.claudeSessionId)
  THEN /\ reply' = [op |-> "record_observation", status |-> 400, body |-> b]
       /\ UNCHANGED <<dbVars, workerVars, now, startVars, histVars>>
  ELSE LET sid == b.claudeSessionId
           session == getSession(sid)
           sess1 == IF session.found THEN sessions
                    ELSE SessionsAfterCreate(sessions, sid, ProjectOfBody[b], "")
           project == IF session.found /\ Truthy(session.row.project)
                      THEN session.row.project
                      ELSE ProjectOfBody[b]
           promptNumber == IF session.found /\ session.row.prompt_counter # 0
                           THEN session.row.prompt_counter
                           ELSE 1
           observation == SimpleObservationOf[b]
           sess2 == SessionsEnsured(sess1, sid, project)
           row == NewObservationRow(sid, project, observation, promptNumber, 0)
           skipped == SkippedBody[b]
           stored == /\ ~skipped
                     /\ ~fault
                     /\ ObsInsertAllowed(sess2, sid, project, row.type)
           id == Len(observations) + 1
       IN /\ served < MaxRequests
          /\ fault => ~skipped
          /\ served' = served + 1
          /\ pendingObservations' =
               QueueAfterPush(pendingObservations, sid, b.tool_name)
          /\ sessions' = IF skipped THEN sess1 ELSE sess2
          /\ observations' = IF stored THEN ObservationsAfterInsert(observations, row)
                             ELSE observations
          /\ observations_fts' = IF stored
                                 THEN FtsAfterInsert(observations_fts, id, row)
                                 ELSE observations_fts
          /\ obsInput' = IF stored THEN Append(obsInput, observation) ELSE obsInput
          /\ createdIds' =
               [createdIds EXCEPT ![sid] =
                  @ \cup (IF session.found /\ skipped THEN {}
                          ELSE {SessionIdIn(sessions', sid)})]
          /\ reply' = [op |-> "record_observation", status |-> 200,
                       body |-> b, stored |-> stored,
                       logged |-> ~skipped /\ ~stored]
          /\ UNCHANGED <<session_summaries, user_prompts, now, startVars, incLog, initLog>>

\* the request served by a store whose engine does not fail
RecordObservation(b) == HandleObservation(b, FALSE)

(***************************************************************************)
(* POST /api/sessions/summarize                                            *)
(***************************************************************************)
FinalizeSummary(b) ==
  IF ~Truthy(b.claudeSessionId)
  THEN /\ reply' = [op |-> "finalize_summary", status |-> 400, body |-> b]
       /\ UNCHANGED <<dbVars, workerVars, now, startVars, histVars>>
  ELSE IF ~getSession(b.claudeSessionId).found
  THEN /\ reply' = [op |-> "finalize_summary", status |-> 404, body |-> b]
       /\ UNCHANGED <<dbVars, workerVars, now, startVars, histVars>>
  ELSE LET sid == b.claudeSessionId
           session == getSession(sid).row
           has == HasSimpleSummary(b.last_assistant_message)
           sess1 == IF has THEN SessionsEnsured(sessions, sid, session.project)
                    ELSE sessions
           ok == has /\ SummaryInsertAllowed(sess1, sid, session.project)
       IN /\ served < MaxRequests
          /\ served' = served + 1
          /\ session_summaries' =
               IF ok
               THEN Append(session_summaries,
                           NewSummaryRow(sid, session.project, SimpleSummaryOf[b],
                                         session.prompt_counter, 0))
               ELSE session_summaries
          /\ sessions' = SessionsAfterCompleted(sess1, sid)
          /\ createdIds' =
               [createdIds EXCEPT ![sid] =
                  @ \cup (IF has THEN {SessionIdIn(sess1, sid)} ELSE {})]
          /\ reply' = [op |-> "finalize_summary", status |-> 200, body |-> b]
          /\ UNCHANGED <<observations, observations_fts, user_prompts,
                         pendingObservations, now, startVars, obsInput, incLog, initLog>>

(***************************************************************************)
(* GET /api/search, GET /api/observations/:id, GET /api/projects           *)
(***************************************************************************)
Search(q, project, limit) ==
  IF ~Truthy(q)
  THEN /\ reply' = [op |-> "search", status |-> 400]
       /\ UNCHANGED <<dbVars, workerVars, now, startVars, histVars>>
  ELSE /\ \E r \in searchObservations(q, project,
                                      IF limit = NullInt \/ limit = 0
                                      THEN DefaultSearchLimit ELSE limit) :
            reply' = [op |-> "search", status |-> 200, results |-> r,
                      count |-> Len(r)]
       /\ UNCHANGED <<dbVars, workerVars, now, startVars, histVars>>

GetObservation(id) ==
  /\ reply' = IF getObservationById(id).found
              THEN [op |-> "get_observation", status |-> 200, id |-> id,
                    observation |-> getObservationById(id)]
              ELSE [op |-> "get_observation", status |-> 404, id |-> id]
  /\ UNCHANGED <<dbVars, workerVars, now, startVars, histVars>>

\* the characters of project names in the order of their byte values, the
\* order of SQLite's default BINARY collation
ByteOrder == "-./0123456789ABCDEFGHIJKLMNOPQRSTUVWXYZ_abcdefghijklmnopqrstuvwxyz"

CharCode(c) == CHOOSE i \in 1..Len(ByteOrder) : SubSeq(ByteOrder, i, i) = c

\* memcmp(a, b) < 0, the shorter of two texts first when it begins the other
RECURSIVE StrLess(_, _)
StrLess(a, b) ==
  IF b = "" THEN FALSE
  ELSE IF a = "" THEN TRUE
  ELSE IF SubSeq(a, 1, 1) # SubSeq(b, 1, 1)
       THEN CharCode(SubSeq(a, 1, 1)) < CharCode(SubSeq(b, 1, 1))
       ELSE StrLess(SubSeq(a, 2, Len(a)), SubSeq(b, 2, Len(b)))

\* SELECT DISTINCT project FROM sessions WHERE project IS NOT NULL AND
\* project != ''
DistinctProjects ==
  {sessions[i].project : i \in {j \in DOMAIN sessions : Truthy(sessions[j].project)}}

\* the names in the order of the rows that hold them, the query without
\* its ORDER BY
getAllProjectsUnordered ==
  LET first(p) == CHOOSE i \in DOMAIN sessions :
                    /\ sessions[i].project = p
                    /\ \A j \in 1..(i - 1) : sessions[j].project # p
  IN  CHOOSE q \in [1..Cardinality(DistinctProjects) -> DistinctProjects] :
        \A i, j \in DOMAIN q : i < j => first(q[i]) < first(q[j])

\* ... ORDER BY project ASC, rows.map(r => r.project)
getAllProjects ==
  CHOOSE q \in [1..Cardinality(DistinctProjects) -> DistinctProjects] :
    \A i, j \in DOMAIN q : i < j => StrLess(q[i], q[j])

ListProjects ==
  /\ reply' = [op |-> "list_projects", status |-> 200, projects |-> getAllProjects]
  /\ UNCHANGED <<dbVars, workerVars, now, startVars, histVars>>

\* GET /api/context/inject
GetContext(project) ==
  IF ~Truthy(project)
  THEN /\ reply' = [op |-> "get_context", status |-> 400]
       /\ UNCHANGED <<dbVars, workerVars, now, startVars, histVars>>
  ELSE /\ \E d \in generateContext(project) :
            reply' = [op |-> "get_context", status |-> 200,
                      project |-> project, lines |-> d]
       /\ UNCHANGED <<dbVars, workerVars, now, startVars, histVars>>

ContextProjects == {"demo", "other", "unknown-project", Null}

WorkerSearchCalls ==
  {SearchCall("auth", "demo", NullInt),
   SearchCall("modified", Null, 1),
   SearchCall(Null, "demo", NullInt)}

WorkerNext ==
  \/ Tick
  \/ \E b \in InitBodies : InitSession(b)
  \/ \E b \in ObsBodies : RecordObservation(b)
  \/ \E b \in SumBodies : FinalizeSummary(b)
  \/ \E c \in WorkerSearchCalls : Search(c.query, c.project, c.limit)
  \/ \E id \in 1..(MaxRecords + 1) : GetObservation(id)
  \/ ListProjects
  \/ \E p \in ContextProjects : GetContext(p)

WorkerSpec == Init /\ [][WorkerNext]_vars

(***************************************************************************)
(* The digest of a store filled over several days.                         *)
(***************************************************************************)
\* time passes, up to the instant MaxDigestTime
Elapse ==
  /\ now < MaxDigestTime
  /\ now' = now + 1
  /\ UNCHANGED <<dbVars, workerVars, reply, histVars, startVars>>

ObsTwoFiles ==
  [type |-> "feature", title |-> "Updated config",
   files_modified |-> <<"/repo/demo/a.js", "/repo/demo/b.js">>]

ContextObsCalls ==
  {ObsCall("s1", "demo", ObsLogin, 1, 40),
   ObsCall("s1", "demo", ObsBare, NullInt, 0),
   ObsCall("s1", "demo", ObsTwoFiles, 2, 4),
   ObsCall("s2", "other", ObsLogin, NullInt, 6)}

\* a summary with next_steps only
SumNext == [next_steps |-> "Add tests"]

ContextSumCalls ==
  {SumCall("s1", "demo", SumAuth, 1, 0),
   SumCall("s1", "demo", SumNext, 2, 0),
   SumCall("s2", "demo", SumEmpty, NullInt, 0)}

ContextNext ==
  \/ Elapse
  \/ \E c \in ContextObsCalls : StoreObservation(c)
  \/ \E c \in ContextSumCalls : StoreSummary(c)
  \/ \E p \in Projects : GetContext(p)

ContextSpec == Init /\ [][ContextNext]_vars

(***************************************************************************)
(* The hooks in front of the worker: new-hook (UserPromptSubmit) posts to  *)
(* /api/sessions/init, save-hook (PostToolUse) to                          *)
(* /api/sessions/observations.  A hook awaits the worker's answer, so a    *)
(* hook run with its request is one step.                                  *)
(***************************************************************************)
\* JSON.stringify(content).includes(tag) for an object of string fields:
\* the tags hold no character JSON escapes and none of its punctuation
StringifiedIncludes(content, tag) ==
  \E k \in DOMAIN content : Includes(k, tag) \/ Includes(content[k], tag)

\* containsPrivateTags of the tool input (an object) and of the tool
\* response (a string)
containsPrivateTags(i) ==
  \/ StringifiedIncludes(i.tool_input, PrivateTag)
  \/ StringifiedIncludes(i.tool_input, ContextTag)
  \/ Includes(i.tool_response, PrivateTag)
  \/ Includes(i.tool_response, ContextTag)

SaveHook(i, fault) ==
  IF containsPrivateTags(i)
  THEN /\ ~fault
       /\ reply' = [op |-> "save_hook", input |-> i, sent |-> FALSE]
       /\ UNCHANGED <<dbVars, workerVars, now, startVars, histVars>>
  ELSE HandleObservation(BodyOfToolUse(i), fault)

NewHook(i) ==
  IF ~Truthy(i.session_id)
  THEN /\ reply' = [op |-> "new_hook", input |-> i, sent |-> FALSE]
       /\ UNCHANGED <<dbVars, workerVars, now, startVars, histVars>>
  ELSE InitSession(InitBody(i.session_id, ProjectOfCwd(i.cwd),
                            IF Truthy(i.user_prompt) THEN i.user_prompt ELSE ""))

HookNext ==
  \/ Tick
  \/ \E i \in NewHookInputs : NewHook(i)
  \/ \E i \in SaveHookInputs, fault \in BOOLEAN : SaveHook(i, fault)

HookSpec == Init /\ [][HookNext]_vars

(***************************************************************************)
(* The read operations over a store that store calls fill.                 *)
(***************************************************************************)
ReadSearchCalls == {SearchCall("login", "demo", NullInt)}

ReadCreateCalls == {CreateCall("s1", "demo-app", ""), CreateCall("s2", "", "")}

ReadNext ==
  \/ Tick
  \/ \E c \in ReadCreateCalls : CreateSession(c.sid, c.project, c.userPrompt)
  \/ \E c \in ContextObsCalls : StoreObservation(c)
  \/ \E c \in ContextSumCalls : StoreSummary(c)
  \/ \E p \in Projects : GetContext(p)
  \/ \E c \in ReadSearchCalls : Search(c.query, c.project, c.limit)
  \/ \E id \in 1..(MaxRecords + 1) : GetObservation(id)
  \/ ListProjects
  \/ \E sid \in SessionIds : GetSession(sid)
  \/ \E c \in RecentObsCalls : GetRecentObservations(c.project, c.limit)
  \/ \E c \in RecentSumCalls : GetRecentSummaries(c.project, c.limit)

ReadSpec == Init /\ [][ReadNext]_vars

(***************************************************************************)
(* The life of a session: the three write requests of the worker and the   *)
(* store's createSession and markSessionCompleted, in any order.           *)
(***************************************************************************)
LifecycleInitBodies ==
  {InitBody("s1", "demo", "fix login"), InitBody("s2", "other", "")}

LifecycleObsBodies ==
  {ObsBody("s1", "Write", [file_path |-> "/repo/demo/src/auth.js"], "/repo/demo"),
   ObsBody("s2", "Bash", [command |-> "npm test"], Null)}

LifecycleSumBodies ==
  {SumBody("s1", TwoLineRequest, "Extended token lifetime"),
   SumBody("s2", Null, LongReply)}

LifecycleCreateCalls == {CreateCall("s1", "other", ""), CreateCall("s2", "", "")}

LifecycleNext ==
  \/ Tick
  \/ \E b \in LifecycleInitBodies : InitSession(b)
  \/ \E b \in LifecycleObsBodies : RecordObservation(b)
  \/ \E b \in LifecycleSumBodies : FinalizeSummary(b)
  \/ \E c \in LifecycleCreateCalls : CreateSession(c.sid, c.project, c.userPrompt)
  \/ \E sid \in SessionIds : MarkSessionCompleted(sid)

LifecycleSpec == Init /\ [][LifecycleNext]_vars

(***************************************************************************)
(* The records of the store and the sessions they refer to: store calls    *)
(* with a project, with an empty project and with none, and init_session.  *)
(***************************************************************************)
IntegrityObsCalls ==
  {ObsCall("s1", "demo", ObsLogin, 1, 6),
   ObsCall("s2", "", ObsBare, NullInt, 0),
   ObsCall("s2", Null, ObsBare, NullInt, 0)}

IntegritySumCalls ==
  {SumCall("s1", "demo", SumAuth, 1, 0),
   SumCall("s2", "", SumEmpty, NullInt, 0),
   SumCall("s1", Null, SumAuth, NullInt, 0)}

IntegrityNext ==
  \/ Tick
  \/ \E b \in LifecycleInitBodies : InitSession(b)
  \/ \E c \in IntegrityObsCalls : StoreObservation(c)
  \/ \E c \in IntegritySumCalls : StoreSummary(c)

IntegritySpec == Init /\ [][IntegrityNext]_vars

(***************************************************************************)
(* The pending observations of the worker: the three write requests, with  *)
(* processObservation succeeding or failing.                               *)
(***************************************************************************)
QueueNext ==
  \/ Tick
  \/ \E b \in LifecycleInitBodies : InitSession(b)
  \/ \E b \in ObsBodies, fault \in BOOLEAN : HandleObservation(b, fault)
  \/ \E b \in LifecycleSumBodies : FinalizeSummary(b)

QueueSpec == Init /\ [][QueueNext]_vars

(***************************************************************************)
(* The start-up of the worker: hook processes in ensureWorkerRunning, each *)
(* await a step of its own, and the worker processes they spawn.           *)
(***************************************************************************)
\* the workers whose server listens on the port
Serving == {w \in DOMAIN workerProcs : workerProcs[w].state = "listening"}

\* isWorkerRunning: response.ok of GET /api/health, false when the fetch
\* is refused or aborted after its two seconds
isWorkerRunning == IF Serving # {} THEN {TRUE, FALSE} ELSE {FALSE}

\* ensureWorkerRunning returns
Returned(hp, value) ==
  [hp EXCEPT !.pc = "done", !.result = IF value THEN "true" ELSE "false"]

\* if (await isWorkerRunning()) return true;
EnsureWorkerRunning(h) ==
  /\ hookProcs[h].pc = "idle"
  /\ \E ok \in isWorkerRunning :
       hookProcs' = [hookProcs EXCEPT ![h] =
                       IF ok THEN Returned(@, TRUE) ELSE [@ EXCEPT !.pc = "start"]]
  /\ UNCHANGED <<dbVars, workerVars, now, reply, histVars, workerProcs>>

\* startWorker up to its loop: no script, return false; else spawn
StartWorker(h, scriptExists) ==
  /\ hookProcs[h].pc = "start"
  /\ IF ~scriptExists
     THEN /\ hookProcs' = [hookProcs EXCEPT ![h] = Returned(@, FALSE)]
          /\ UNCHANGED workerProcs
     ELSE /\ workerProcs' = Append(workerProcs,
                                   [state |-> "starting", error |-> "none",
                                    start |-> "pending"])
          /\ hookProcs' = [hookProcs EXCEPT ![h] =
                             [@ EXCEPT !.pc = "poll", !.spawned = @ + 1]]
  /\ UNCHANGED <<dbVars, workerVars, now, reply, histVars>>

\* one turn of while (Date.now() - startTime < maxWait)
PollWorker(h) ==
  /\ hookProcs[h].pc = "poll"
  /\ hookProcs[h].polls < MaxPolls
  /\ \E ok \in isWorkerRunning :
       hookProcs' = [hookProcs EXCEPT ![h] =
                       IF ok THEN Returned(@, TRUE)
                       ELSE [@ EXCEPT !.polls = @ + 1]]
  /\ UNCHANGED <<dbVars, workerVars, now, reply, histVars, workerProcs>>

\* maxWait is over: return false
GiveUp(h) ==
  /\ hookProcs[h].pc = "poll"
  /\ hookProcs[h].polls = MaxPolls
  /\ hookProcs' = [hookProcs EXCEPT ![h] = Returned(@, FALSE)]
  /\ UNCHANGED <<dbVars, workerVars, now, reply, histVars, workerProcs>>

\* what app.listen can come to: the callback, or an 'error' event
ListenErrors == {"none", "EADDRINUSE", "EACCES"}

\* a start() that resolves on the listen callback only
startSettledStrict(err) == IF err = "none" THEN "resolved" ELSE "rejected"

\* resolve() in the listen callback and on EADDRINUSE, reject(err) otherwise
startSettled(err) ==
  IF err \in {"none", "EADDRINUSE"} THEN "resolved" ELSE "rejected"

\* WorkerService.start() in a spawned process; a rejected start ends the
\* process with process.exit(1)
StartService(w, err) ==
  /\ w \in DOMAIN workerProcs
  /\ workerProcs[w].state = "starting"
  /\ err = "none" => Serving = {}
  /\ err = "EADDRINUSE" => Serving # {}
  /\ workerProcs' =
       [workerProcs EXCEPT ![w] =
          [state |-> IF err = "none" THEN "listening"
                     ELSE IF startSettled(err) = "resolved" THEN "not-serving"
                     ELSE "exited",
           error |-> err,
           start |-> startSettled(err)]]
  /\ UNCHANGED <<dbVars, workerVars, now, reply, histVars, hookProcs>>

\* SIGTERM or SIGINT: shutdown() closes the server, process.exit(0)
Shutdown(w) ==
  /\ w \in Serving
  /\ workerProcs' = [workerProcs EXCEPT ![w].state = "exited"]
  /\ UNCHANGED <<dbVars, workerVars, now, reply, histVars, hookProcs>>

StartupNext ==
  \/ \E h \in HookIds : EnsureWorkerRunning(h)
  \/ \E h \in HookIds, scriptExists \in BOOLEAN : StartWorker(h, scriptExists)
  \/ \E h \in HookIds : PollWorker(h)
  \/ \E h \in HookIds : GiveUp(h)
  \/ \E w \in 1..Cardinality(HookIds), err \in ListenErrors : StartService(w, err)
  \/ \E w \in 1..Cardinality(HookIds) : Shutdown(w)

StartupSpec == Init /\ [][StartupNext]_vars

(***************************************************************************)
(* The XML parser of the SDK: parseObservations over the text of a reply.  *)
(***************************************************************************)
\* the text t stands in s at position i
StartsAt(s, i, t) ==
  i >= 1 /\ i + Len(t) - 1 <= Len(s) /\ SubSeq(s, i, i + Len(t) - 1) = t

\* the first position from i on where t stands in s, 0 when there is none
IndexFrom(s, t, i) ==
  LET at == {j \in i..Len(s) : StartsAt(s, j, t)}
  IN  IF at = {} THEN 0 ELSE CHOOSE j \in at : \A k \in at : j <= k

WhiteSpace == {" ", "\n", "\t"}

\* String.prototype.trim
RECURSIVE trim(_)
trim(t) ==
  IF t = "" THEN ""
  ELSE IF SubSeq(t, 1, 1) \in WhiteSpace THEN trim(SubSeq(t, 2, Len(t)))
  ELSE IF SubSeq(t, Len(t), Len(t)) \in WhiteSpace
       THEN trim(SubSeq(t, 1, Len(t) - 1))
  ELSE t

OpenTag(name) == "<" \o name \o ">"
CloseTag(name) == "</" \o name \o ">"

\* the leftmost match of <name>([^<]*)</name> in content from position i
\* on, with at least min captured characters: the capture runs to the next
\* "<", which has to begin the closing tag
PlainMatch(content, name, i, min) ==
  LET from(j) == j + Len(OpenTag(name))
      to(j) == IndexFrom(content, "<", from(j))
      hits == {j \in i..Len(content) :
                 /\ StartsAt(content, j, OpenTag(name))
                 /\ to(j) - from(j) >= min
                 /\ StartsAt(content, to(j), CloseTag(name))}
  IN  IF hits = {} THEN [found |-> FALSE]
      ELSE LET j == CHOOSE h \in hits : \A k \in hits : h <= k
           IN  [found |-> TRUE,
                capture |-> SubSeq(content, from(j), to(j) - 1),
                lastIndex |-> to(j) + Len(CloseTag(name))]

\* the leftmost match of <name>([\s\S]*?)</name> in text from position i
\* on: the first opening tag and the first closing tag after it
LazyMatch(text, name, i) ==
  LET j == IndexFrom(text, OpenTag(name), i)
      from == j + Len(OpenTag(name))
      to == IndexFrom(text, CloseTag(name), from)
  IN  IF j = 0 \/ to = 0 THEN [found |-> FALSE]
      ELSE [found |-> TRUE,
            capture |-> SubSeq(text, from, to - 1),
            lastIndex |-> to + Len(CloseTag(name))]

extractField(content, fieldName) ==
  LET match == PlainMatch(content, fieldName, 1, 0)
  IN  IF ~match.found THEN Null
      ELSE IF trim(match.capture) = "" THEN Null ELSE trim(match.capture)

\* the loop over the matches of <elementName>([^<]+)</elementName>
RECURSIVE ElementsFrom(_, _, _)
ElementsFrom(arrayContent, elementName, i) ==
  LET elementMatch == PlainMatch(arrayContent, elementName, i, 1)
  IN  IF ~elementMatch.found THEN <<>>
      ELSE <<trim(elementMatch.capture)>>
             \o ElementsFrom(arrayContent, elementName, elementMatch.lastIndex)

extractArrayElements(content, arrayName, elementName) ==
  LET arrayMatch == LazyMatch(content, arrayName, 1)
  IN  IF ~arrayMatch.found THEN <<>>
      ELSE ElementsFrom(arrayMatch.capture, elementName, 1)

\* the type kept as the text gives it
finalTypeUnvalidated(type) == type

\* 'change' unless the type is one of validTypes
finalType(type) ==
  IF type # Null /\ trim(type) \in ValidTypes THEN trim(type) ELSE "change"

\* the record pushed for one matched block
ParsedObservation(content) ==
  [type |-> finalType(extractField(content, "type")),
   title |-> extractField(content, "title"),
   subtitle |-> extractField(content, "subtitle"),
   facts |-> extractArrayElements(content, "facts", "fact"),
   narrative |-> extractField(content, "narrative"),
   concepts |-> extractArrayElements(content, "concepts", "concept"),
   files_read |-> extractArrayElements(content, "files_read", "file"),
   files_modified |-> extractArrayElements(content, "files_modified", "file")]

\* the pieces the texts given to the parser are made of
FullBlock ==
  "<observation>\n  <type>bugfix</type>\n  <title>Fixed login</title>\n"
  \o "  <subtitle>Token refresh</subtitle>\n"
  \o "  <narrative>\n    The token expired too early\n  </narrative>\n"
  \o "  <facts>\n    <fact>Expiry was 60s</fact>\n    <fact> Now 3600s </fact>\n  </facts>\n"
  \o "  <concepts><concept>auth</concept></concepts>\n"
  \o "  <files_read><file>src/auth.js</file></files_read>\n"
  \o "  <files_modified><file>src/auth.js</file><file>src/token.js</file></files_modified>\n"
  \o "</observation>"

TitleOnlyBlock == "<observation><title>Read config</title></observation>"

UnknownTypeBlock ==
  "<observation><type>Bugfix</type><title>Renamed helper</title>"
  \o "<facts></facts><files_read>src/a.js</files_read></observation>"

SpacedBlock ==
  "<observation>\n<type> discovery </type>\n<title>  </title>\n"
  \o "<narrative>Found cache</narrative>\n"
  \o "<files_modified><file>src/cache.js</file></files_modified>\n</observation>"

EmptyBlock == "<observation></observation>"

Prose == "Here is what I observed.\n"

SummaryBlock ==
  "<summary><request>Fix login</request><title>Not an observation</title></summary>"

\* a reply cut off inside a title, and one cut off after it
UnclosedTitle == "<observation><title>Cut off"

Unclosed == "<observation><type>decision</type><title>Cut off</title>"

Segments ==
  {FullBlock, TitleOnlyBlock, UnknownTypeBlock, SpacedBlock, EmptyBlock, Prose,
   SummaryBlock, UnclosedTitle, Unclosed}

MaxSegments == 2

RECURSIVE TextOf(_)
TextOf(segs) ==
  IF segs = <<>> THEN "" ELSE Head(segs) \o "\n" \o TextOf(Tail(segs))

ParserInputs == UNION {[1..n -> Segments] : n \in 0..MaxSegments}

\* parseObservations is entered with text, the regular expression at the
\* start of it and no record yet
ParserInit ==
  /\ sessions = <<>>
  /\ observations = <<>>
  /\ observations_fts = {}
  /\ session_summaries = <<>>
  /\ user_prompts = <<>>
  /\ pendingObservations = [s \in {} |-> <<>>]
  /\ now = 0
  /\ served = 0
  /\ createdIds = [s \in SessionIds |-> {}]
  /\ obsInput = <<>>
  /\ incLog = [s \in SessionIds |-> <<>>]
  /\ initLog = [s \in SessionIds |-> <<>>]
  /\ hookProcs = [h \in HookIds |-> IdleHook]
  /\ workerProcs = <<>>
  /\ \E segs \in ParserInputs :
       reply = [op |-> "parsing", segs |-> segs, text |-> TextOf(segs),
                lastIndex |-> 1, observations |-> <<>>]

\* one turn of while ((match = observationRegex.exec(text)) !== null)
ParseBlock ==
  /\ reply.op = "parsing"
  /\ LET match == LazyMatch(reply.text, "observation", reply.lastIndex)
     IN  /\ match.found
         /\ reply' = [reply EXCEPT
                        !.lastIndex = match.lastIndex,
                        !.observations =
                          Append(@, ParsedObservation(match.capture))]
  /\ UNCHANGED <<dbVars, workerVars, now, startVars, histVars>>

\* exec finds no further block: return observations
ParseReturn ==
  /\ reply.op = "parsing"
  /\ ~LazyMatch(reply.text, "observation", reply.lastIndex).found
  /\ reply' = [op |-> "parseObservations", segs |-> reply.segs,
               text |-> reply.text, ret |-> reply.observations]
  /\ UNCHANGED <<dbVars, workerVars, now, startVars, histVars>>

ParserNext == ParseBlock \/ ParseReturn

ParserSpec == ParserInit /\ [][ParserNext]_vars

(***************************************************************************)
(* The session operations of the store.                                    *)
(***************************************************************************)
SessionNext ==
  \/ Tick
  \/ \E c \in CreateCalls : CreateSession(c.sid, c.project, c.userPrompt)
  \/ \E sid \in SessionIds : GetSession(sid)
  \/ \E sid \in SessionIds : IncrementPromptCounter(sid)
  \/ \E sid \in SessionIds : MarkSessionCompleted(sid)

SessionSpec == Init /\ [][SessionNext]_vars

(***************************************************************************)
(* The record operations of the store.                                     *)
(***************************************************************************)
StoreCreateCalls == {CreateCall("s1", "demo", "fix login")}

StoreNext ==
  \/ Tick
  \/ \E c \in StoreCreateCalls : CreateSession(c.sid, c.project, c.userPrompt)
  \/ \E c \in StoreObsCalls : StoreObservation(c)
  \/ \E c \in StoreSumCalls : StoreSummary(c)
  \/ \E id \in 1..(MaxRecords + 1) : GetObservationById(id)
  \/ \E c \in SearchCalls : SearchObservations(c.query, c.project, c.limit)
  \/ \E c \in RecentObsCalls : GetRecentObservations(c.project, c.limit)
  \/ \E c \in RecentSumCalls : GetRecentSummaries(c.project, c.limit)

StoreSpec == Init /\ [][StoreNext]_vars
(***************************************************************************)
(* Properties.                                                             *)
(***************************************************************************)
\* C1: whatever the order of the createSession(s, ...) calls, those of the
\* clients and those storeObservation and storeSummary make, table sessions
\* holds at most one row per session id and every call that was given a
\* project returned one and the same internal id
C1_OneRowOneId ==
  \A s \in SessionIds :
    /\ Cardinality(RowsOf(sessions, s)) <= 1
    /\ Cardinality(createdIds[s]) <= 1
    /\ HasSession(s) => createdIds[s] = {FirstRowOf(sessions, s)}

\* a second createSession call found its session, the second row of the table
C1_Witness ==
  /\ reply.op = "createSession"
  /\ reply.ret = 2
  /\ Len(sessions) = 2
  /\ sessions[2].started_at_epoch < now
  /\ Len(observations) >= 1

\* C2: createSession on an existing session never replaces a stored project
\* or user prompt by an empty value
C2_EmptyNeverReplaces ==
  [][\A i \in DOMAIN sessions :
       /\ sessions[i].user_prompt # "" => sessions'[i].user_prompt # ""
       /\ sessions[i].project # "" => sessions'[i].project # ""]_vars

\* C3: on an existing session the n calls of incrementPromptCounter made so
\* far returned 1, 2, ..., n in this order and the stored counter is n
C3_Increments ==
  \A s \in SessionIds :
    HasSession(s) =>
      /\ incLog[s] = [j \in 1..Len(incLog[s]) |-> j]
      /\ getPromptCounter(s) = Len(incLog[s])

\* three increments of one session, with increments of the other in between
C3_Witness ==
  /\ incLog["s1"] = <<1, 2, 3>>
  /\ Len(incLog["s2"]) = 2

\* C4: the prompt counter of a session equals the number of init_session
\* calls answered for it, the j-th of them answered promptNumber = j, and no
\* other request changes the counter
C4_CounterCountsInits ==
  \A s \in SessionIds :
    /\ initLog[s] = [j \in 1..Len(initLog[s]) |-> j]
    /\ getPromptCounter(s) = Len(initLog[s])

\* two init_session calls of a session that has an observation as well
C4_Witness ==
  /\ initLog["s1"] = <<1, 2>>
  /\ \E i \in DOMAIN observations : observations[i].session_id = "s1"

\* the type the store gives the row of an observation object
TypeStored(observation) == OrElse(observation, "type", "change")

\* C5: storeObservation and storeSummary called with a non-empty project for
\* a session id without a row create the session (active, empty prompt,
\* counter 0) and store the record; the call fails only when the record
\* itself is refused (an observation type outside the enum)
C5_AutoCreate ==
  (/\ reply.op \in {"storeObservation", "storeSummary"}
   /\ Truthy(reply.call.project)
   /\ ~reply.existed)
  => /\ HasSession(reply.call.sid)
     /\ LET row == sessions[FirstRowOf(sessions, reply.call.sid)]
        IN /\ row.status = "active"
           /\ row.user_prompt = ""
           /\ row.prompt_counter = 0
           /\ row.project = reply.call.project
     /\ reply.op = "storeSummary" =>
          /\ reply.ok
          /\ session_summaries[reply.id].session_id = reply.call.sid
     /\ (reply.op = "storeObservation"
         /\ TypeStored(reply.call.observation) \in ValidTypes) =>
          /\ reply.ok
          /\ observations[reply.id].session_id = reply.call.sid

\* an observation stored for a session nobody had initialised
C5_Witness ==
  /\ reply.op = "storeObservation"
  /\ ~reply.existed
  /\ reply.ok
  /\ Len(session_summaries) = 1

\* C6: storeObservation with a type outside the enum stores the observation
\* with type "change"; the write is not rejected
C6_UnknownTypeCoerced ==
  (/\ reply.op = "storeObservation"
   /\ Truthy(reply.call.project)
   /\ TypeStored(reply.call.observation) \notin ValidTypes)
  => /\ reply.ok
     /\ observations[reply.id].type = "change"

\* C7: every stored observation has one of the six types
C7_TypeInEnum ==
  \A i \in DOMAIN observations : observations[i].type \in ValidTypes

\* an observation written without a type sits in the table as a change, and
\* a write with type "foo" has just been turned away
C7_Witness ==
  /\ \E i \in DOMAIN observations :
       obsInput[i] = ObsBare /\ observations[i].type = "change"
  /\ reply.op = "storeObservation"
  /\ reply.call.observation = ObsFoo
  /\ ~reply.ok

\* the array an observation object supplies under `key`, [] when it has none
Supplied(observation, key) ==
  IF key \in DOMAIN observation THEN observation[key] ELSE <<>>

\* C8 as the specification words it: getObservationById returns the four
\* array fields as sequences, equal to the sequence supplied at write time
C8_ArraysAsSequences ==
  \A i \in DOMAIN observations : \A f \in ArrayColumns :
    LET v == getObservationById(i).row[f]
    IN /\ v.typeof = "array"
       /\ v.value = Supplied(obsInput[i], f)

\* C8: getObservationById returns each of the four array fields as a JSON
\* text, never absent, that decodes to the sequence supplied at write time,
\* same elements in the same order, and to [] when none was supplied
C8_ArraysAsJsonText ==
  \A i \in DOMAIN observations : \A f \in ArrayColumns :
    LET v == getObservationById(i).row[f]
    IN /\ v.typeof = "string"
       /\ v.value # Null
       /\ JSONparse(v.value) = Supplied(obsInput[i], f)

\* one observation written with facts ["a","b"] and one written without any
\* array field
C8_Witness ==
  /\ \E i \in DOMAIN observations :
       /\ obsInput[i] = ObsLogin
       /\ JSONparse(getObservationById(i).row.facts.value) = <<"a", "b">>
  /\ \E i \in DOMAIN observations : obsInput[i] = ObsBare

\* the terms a row can be found by
RowTokens(row) ==
  Tokens(row.title) \cup Tokens(row.subtitle) \cup Tokens(row.narrative)
  \cup Tokens(row.facts)

\* C9: between store calls the index holds exactly one entry per observation
\* row, with the row's title, subtitle, narrative and facts, so that every
\* stored observation is found by each of its terms
C9_IndexInStep ==
  /\ {e.rowid : e \in observations_fts} = DOMAIN observations
  /\ Cardinality(observations_fts) = Len(observations)
  /\ \A e \in observations_fts : e = FtsEntry(e.rowid, observations[e.rowid])
  /\ \A i \in DOMAIN observations : \A t \in RowTokens(observations[i]) :
       \A r \in searchObservations(t, Null, -1) : i \in Range(r)

\* the storeObservation that has just returned wrote the second row, and the
\* index has it
C9_Witness ==
  /\ reply.op = "storeObservation"
  /\ reply.ok
  /\ reply.id = 2
  /\ \E e \in observations_fts : e.rowid = 2 /\ e.title = "Fixed login bug"

\* the rows of project p that hold the term q
MatchesIn(q, p) ==
  {i \in DOMAIN observations :
     q \in RowTokens(observations[i]) /\ observations[i].project = p}

\* C10: a search with a project returns only matching observations of that
\* project, at least one when there is one and the limit is not 0, and all
\* of them when the limit does not cut the result
C10_ProjectScoped ==
  \A q \in Queries, p \in Projects, n \in Limits \cup {-1} :
    \A r \in searchObservations(q, p, n) :
      /\ Range(r) \subseteq MatchesIn(q, p)
      /\ MatchesIn(q, p) # {} => r # <<>>
      /\ (n < 0 \/ n >= Cardinality(MatchesIn(q, p))) => Range(r) = MatchesIn(q, p)

\* "timeout" stands in the narrative of two observations of different
\* projects, and the search scoped to one project answered with that one
C10_Witness ==
  /\ reply.op = "searchObservations"
  /\ reply.call = SearchCall("timeout", "other", 1)
  /\ Len(reply.ret) = 1
  /\ observations[reply.ret[1]].project = "other"
  /\ \E i \in DOMAIN observations :
       /\ observations[i].project = "demo"
       /\ "timeout" \in Tokens(observations[i].narrative)

\* C11: the result of a search is ordered by creation epoch descending and
\* the limit is applied after the project filter: of the m observations
\* matching the query and the project it holds min(limit, m), none of them
\* older than a matching observation that was left out
C11_MostRecentOfProject ==
  \A q \in Queries, p \in Projects, n \in Limits \cup {0, 2} :
    \A r \in searchObservations(q, p, n) :
      /\ Len(r) = Min(n, Cardinality(MatchesIn(q, p)))
      /\ Range(r) \subseteq MatchesIn(q, p)
      /\ \A k, l \in DOMAIN r : k < l =>
           /\ r[k] # r[l]
           /\ observations[r[k]].created_at_epoch
                >= observations[r[l]].created_at_epoch
      /\ \A i \in MatchesIn(q, p) \ Range(r) : \A k \in DOMAIN r :
           observations[i].created_at_epoch
             <= observations[r[k]].created_at_epoch

\* two observations of project "other" hold "timeout", written at different
\* times, and the search limited to one returned the later one
C11_Witness ==
  /\ reply.op = "searchObservations"
  /\ reply.call = SearchCall("timeout", "other", 1)
  /\ reply.ret = <<2>>
  /\ observations[1].project = "other"
  /\ "timeout" \in Tokens(observations[1].narrative)
  /\ observations[1].created_at_epoch < observations[2].created_at_epoch

\* r holds the n most recent of the rows `ids` of tbl, latest first
MostRecentFirst(tbl, ids, n, r) ==
  /\ Len(r) = Min(n, Cardinality(ids))
  /\ Range(r) \subseteq ids
  /\ \A k, l \in DOMAIN r : k < l =>
       /\ r[k] # r[l]
       /\ tbl[r[k]].created_at_epoch >= tbl[r[l]].created_at_epoch
  /\ \A i \in ids \ Range(r) : \A k \in DOMAIN r :
       tbl[i].created_at_epoch <= tbl[r[k]].created_at_epoch

\* C12: getRecentObservations and getRecentSummaries return rows of the
\* given project only, at most `limit` of them, by creation epoch
\* descending, and no row of the project left out is newer than one returned
C12_RecentOfProject ==
  \A p \in Projects, n \in {0, 1, 2, DefaultSummaryLimit, DefaultObservationLimit} :
    /\ \A r \in getRecentObservations(p, n) :
         MostRecentFirst(observations,
                         {i \in DOMAIN observations : observations[i].project = p},
                         n, r)
    /\ \A r \in getRecentSummaries(p, n) :
         MostRecentFirst(session_summaries,
                         {i \in DOMAIN session_summaries :
                            session_summaries[i].project = p},
                         n, r)

\* project "demo" has two summaries written at different times and the
\* query limited to one returned the later
C12_Witness ==
  /\ reply.op = "getRecentSummaries"
  /\ reply.call = RecentCall("demo", 1)
  /\ reply.ret = <<2>>
  /\ session_summaries[1].project = "demo"
  /\ session_summaries[1].created_at_epoch < session_summaries[2].created_at_epoch

\* C13: every markSessionCompleted call on an existing session, the first as
\* well as a repeated one, leaves the session completed with the time of
\* this call as its completion time, and its project, user prompt, prompt
\* counter and start time as they were
C13_CompletedIdempotent ==
  [][\A s \in SessionIds :
       (MarkSessionCompleted(s) /\ HasSession(s)) =>
         LET i == FirstRowOf(sessions, s)
         IN /\ sessions'[i].status = "completed"
            /\ sessions'[i].completed_at_epoch = now
            /\ sessions'[i].project = sessions[i].project
            /\ sessions'[i].user_prompt = sessions[i].user_prompt
            /\ sessions'[i].prompt_counter = sessions[i].prompt_counter
            /\ sessions'[i].started_at_epoch = sessions[i].started_at_epoch]_vars

\* a session begun at time 0, with prompts counted, completed at time 1
C13_Witness ==
  /\ reply.op = "markSessionCompleted"
  /\ HasSession(reply.sid)
  /\ LET row == sessions[FirstRowOf(sessions, reply.sid)]
     IN /\ row.status = "completed"
        /\ row.started_at_epoch = 0
        /\ row.completed_at_epoch = 1
        /\ row.prompt_counter >= 1
        /\ row.user_prompt = "fix login"
  /\ now = 1

\* C14: incrementPromptCounter for a session id without a row returns 1 and
\* changes no table; in particular it creates no session, however often
\* it is called
C14_IncrementOfNoSession ==
  [][\A s \in SessionIds :
       (/\ reply'.op = "incrementPromptCounter"
        /\ reply'.sid = s
        /\ ~HasSession(s)) =>
         /\ reply'.ret = 1
         /\ dbVars' = dbVars]_vars

\* the counter of "s2" was asked for while only "s1" had a row
C14_Witness ==
  /\ reply.op = "incrementPromptCounter"
  /\ reply.sid = "s2"
  /\ reply.ret = 1
  /\ ~HasSession("s2")
  /\ HasSession("s1")
  /\ getPromptCounter("s1") = 2

\* C15: no step of any request changes or removes a stored observation:
\* every observation of a state is in the next state, under the same id and
\* with the same field values
C15_ObservationsImmutable ==
  [][\A i \in DOMAIN observations :
       /\ i \in DOMAIN observations'
       /\ observations'[i] = observations[i]]_vars

\* the observation written for session "s1" under project "demo" is as it
\* was after the session moved to project "other" and was completed
C15_Witness ==
  /\ reply.op = "finalize_summary"
  /\ reply.status = 200
  /\ Len(observations) >= 1
  /\ observations[1].session_id = "s1"
  /\ observations[1].project = "demo"
  /\ sessions[FirstRowOf(sessions, "s1")].project = "other"
  /\ sessions[FirstRowOf(sessions, "s1")].status = "completed"

\* the lines of kind `kind` in a digest
LinesOf(d, kind) == {d[k] : k \in {l \in DOMAIN d : d[l].kind = kind}}

\* session sid stands under project p and is completed, observation i is
\* one of its observations under p with a modified file, and summary j is
\* its summary under p, later than every other summary of p
Recorded(sid, p, i, j) ==
  /\ HasSession(sid)
  /\ sessions[FirstRowOf(sessions, sid)].project = p
  /\ sessions[FirstRowOf(sessions, sid)].status = "completed"
  /\ observations[i].session_id = sid
  /\ observations[i].project = p
  /\ Len(Supplied(obsInput[i], "files_modified")) > 0
  /\ session_summaries[j].session_id = sid
  /\ session_summaries[j].project = p
  /\ \A k \in DOMAIN session_summaries :
       (k # j /\ session_summaries[k].project = p) =>
         session_summaries[k].created_at_epoch
           < session_summaries[j].created_at_epoch

\* C16: once a session of project p is initialised, has an observation with
\* a file path recorded and its summary finalised, get_context(p) names the
\* project and shows the observation's title and file path and the
\* summary's request; a search for a word of the title in p returns the
\* observation; get_observation of its id yields it; list_projects has p
C16_EndToEnd ==
  \A sid \in SessionIds, i \in DOMAIN observations,
     j \in DOMAIN session_summaries :
    LET p == observations[i].project
    IN Recorded(sid, p, i, j) =>
         /\ \A d \in generateContext(p) :
              /\ \E h \in LinesOf(d, "header") : Includes(h.text, p)
              /\ \E r \in LinesOf(d, "row") :
                   /\ r.id = i
                   /\ r.title = obsInput[i].title
                   /\ r.file = obsInput[i].files_modified[1]
              /\ \E q \in LinesOf(d, "request") :
                   q.text = session_summaries[j].request
         /\ \A w \in Tokens(obsInput[i].title) :
              \A r \in searchObservations(w, p, DefaultSearchLimit) :
                i \in Range(r)
         /\ getObservationById(i).found
         /\ getObservationById(i).row.title = obsInput[i].title
         /\ getObservationById(i).row.project = p
         /\ p \in Range(getAllProjects)

\* init_session, record_observation of a Write and finalize_summary for
\* "s1" were answered, and get_context("demo") has just shown the three
C16_Witness ==
  /\ reply.op = "get_context"
  /\ reply.status = 200
  /\ reply.project = "demo"
  /\ initLog["s1"] = <<1>>
  /\ Len(observations) = 1
  /\ Len(session_summaries) = 1
  /\ Recorded("s1", "demo", 1, 1)
  /\ \E r \in LinesOf(reply.lines, "row") :
       r.title = "Modified auth.js" /\ r.file = "/repo/demo/src/auth.js"
  /\ \E q \in LinesOf(reply.lines, "request") :
       q.text = "Fix authentication issue"

\* the fixed message for a project without history
NoHistoryMessage(p) ==
  <<[kind |-> "header", text |-> "# [" \o p \o "] recent context"],
    [kind |-> "text", text |-> "No previous sessions found for this project yet."]>>

\* C17: for a project with no observation and no summary get_context
\* returns the fixed empty-state message, which names the project, and
\* nothing else; with at least one observation or one summary of the
\* project it returns the digest with its economics block, never the message
C17_EmptyState ==
  \A p \in ContextProjects \ {Null} : \A d \in generateContext(p) :
    IF /\ \A i \in DOMAIN observations : observations[i].project # p
       /\ \A j \in DOMAIN session_summaries : session_summaries[j].project # p
    THEN /\ d = NoHistoryMessage(p)
         /\ Includes(d[1].text, p)
    ELSE /\ Len(d) > 2
         /\ LinesOf(d, "loading") # {}
         /\ \A k \in DOMAIN d : d[k].kind # "text"

\* get_context("other") answered with the message while project "demo"
\* had an observation and a summary
C17_Witness ==
  /\ reply.op = "get_context"
  /\ reply.status = 200
  /\ reply.project = "other"
  /\ reply.lines = NoHistoryMessage("other")
  /\ \E i \in DOMAIN observations : observations[i].project = "demo"
  /\ \E j \in DOMAIN session_summaries : session_summaries[j].project = "demo"

\* the characters the digest counts for observation i: its title,
\* subtitle and narrative and the JSON text of its facts
CountedSize(i) ==
  LengthOf(observations[i].title) + LengthOf(observations[i].subtitle)
  + LengthOf(observations[i].narrative)
  + Len(JSONstringify(Supplied(obsInput[i], "facts")))

\* the observations of project p, which get_context fetches
FetchedOf(p) == {i \in DOMAIN observations : observations[i].project = p}

\* C18 as the specification words it: the display cost is ceil(S / 4) for
\* the sum S of the counted characters of all fetched observations, one
\* rounding applied to the total
C18_OneRounding ==
  \A p \in Projects : \A d \in generateContext(p) :
    \A l \in LinesOf(d, "loading") :
      l.tokens =
        CeilDiv(SumSeq([i \in DOMAIN observations |->
                          IF i \in FetchedOf(p) THEN CountedSize(i) ELSE 0]),
                CharsPerToken)

\* C18: the display cost is the sum over the fetched observations of
\* ceil(size / 4), each observation rounded up by itself, where size counts
\* title, subtitle, narrative and the JSON text of the facts; the discovery
\* cost is the sum of the stored discovery-token fields
C18_RoundedPerObservation ==
  \A p \in Projects : \A d \in generateContext(p) :
    /\ \A l \in LinesOf(d, "loading") :
         /\ l.observations = Cardinality(FetchedOf(p))
         /\ l.tokens =
              SumSeq([i \in DOMAIN observations |->
                        IF i \in FetchedOf(p)
                        THEN CeilDiv(CountedSize(i), CharsPerToken) ELSE 0])
    /\ \A l \in LinesOf(d, "investment") :
         l.tokens =
           SumSeq([i \in DOMAIN observations |->
                     IF i \in FetchedOf(p) THEN observations[i].discovery_tokens
                     ELSE 0])

\* two observations of 37 characters each: 10 + 10 tokens to read, where
\* one rounding of the 74 characters would give 19, and 80 tokens of work
C18_Witness ==
  /\ reply.op = "get_context"
  /\ reply.status = 200
  /\ reply.project = "demo"
  /\ \E l \in LinesOf(reply.lines, "loading") :
       l.observations = 2 /\ l.tokens = 20
  /\ \E l \in LinesOf(reply.lines, "investment") : l.tokens = 80
  /\ CountedSize(1) + CountedSize(2) = 74

\* the position of the day heading the line at position k stands under
HeadingOf(d, k) ==
  CHOOSE h \in 1..k :
    /\ d[h].kind = "day"
    /\ \A m \in (h + 1)..k : d[m].kind # "day"

\* the positions of the row lines of a digest
RowPositions(d) == {k \in DOMAIN d : d[k].kind = "row"}

\* C19: the rows of a digest stand under one heading exactly when their
\* observations were created on the same calendar day; the rows of a later
\* day come before those of an earlier day; under one heading the rows are in
\* ascending creation epoch; every fetched observation has exactly one row
C19_GroupedByDay ==
  \A p \in Projects : \A d \in generateContext(p) :
    /\ \A k, l \in RowPositions(d) :
         (HeadingOf(d, k) = HeadingOf(d, l))
           <=> (DayOf(EpochOf(d[k].id)) = DayOf(EpochOf(d[l].id)))
    /\ \A k, l \in RowPositions(d) :
         (k < l /\ HeadingOf(d, k) # HeadingOf(d, l)) =>
           DayOf(EpochOf(d[k].id)) > DayOf(EpochOf(d[l].id))
    /\ \A k, l \in RowPositions(d) :
         (k < l /\ HeadingOf(d, k) = HeadingOf(d, l)) =>
           EpochOf(d[k].id) <= EpochOf(d[l].id)
    /\ {d[k].id : k \in RowPositions(d)} = FetchedOf(p)
    /\ Cardinality(RowPositions(d)) = Cardinality(FetchedOf(p))

\* a path that lies inside directory cwd
Inside(file, cwd) ==
  Truthy(cwd) /\ StartsWith(file, cwd \o "/") /\ Len(file) > Len(cwd) + 1

FileCase(files, cwd) == [files |-> files, cwd |-> cwd]

\* lists of modified files and working directories
FileCases ==
  {FileCase(<<"/repo/demo/src/auth.js", "/repo/demo/b.js">>, "/repo/demo"),
   FileCase(<<"/repo/demo/src/auth.js">>, ""),
   FileCase(<<"/elsewhere/x.js", "/repo/demo/b.js">>, "/repo/demo"),
   FileCase(<<"src/auth.js">>, "/repo/demo"),
   FileCase(<<>>, "/repo/demo"),
   FileCase(<<>>, "")}

SummaryFields == {"request", "completed", "next_steps"}

\* the block of digest d shows summary row j: its heading once, and each of
\* request, completed and next_steps exactly when the row has it
ShowsSummary(d, j) ==
  /\ Cardinality({k \in DOMAIN d : d[k].kind = "summary"}) = 1
  /\ \A f \in SummaryFields :
       LinesOf(d, f) = IF session_summaries[j][f] # Null
                       THEN {[kind |-> f, text |-> session_summaries[j][f]]}
                       ELSE {}

\* C21: the last-session block of get_context(p) shows a summary of p whose
\* creation epoch is the greatest among the summaries of p, whatever their
\* sessions, with each of request, completed and next_steps present exactly
\* when the field is non-null; without a summary of p there is no block
C21_LastSessionBlock ==
  \A p \in Projects : \A d \in generateContext(p) :
    LET own == RowsOfProject(session_summaries, p)
    IN IF own = {}
       THEN \A k \in DOMAIN d : d[k].kind \notin SummaryFields \cup {"summary"}
       ELSE \E j \in own :
              /\ \A k \in own : session_summaries[k].created_at_epoch
                                  <= session_summaries[j].created_at_epoch
              /\ ShowsSummary(d, j)

\* two summaries of session "s1" in project "demo", the second stored later
\* and with next_steps only: the block shows the next steps and no request
C21_Witness ==
  /\ reply.op = "get_context"
  /\ reply.status = 200
  /\ reply.project = "demo"
  /\ Len(session_summaries) = 2
  /\ session_summaries[1].session_id = "s1"
  /\ session_summaries[2].session_id = "s1"
  /\ session_summaries[1].request = "Fix authentication issue"
  /\ session_summaries[1].created_at_epoch < session_summaries[2].created_at_epoch
  /\ LinesOf(reply.lines, "next_steps")
       = {[kind |-> "next_steps", text |-> "Add tests"]}
  /\ LinesOf(reply.lines, "request") = {}
  /\ LinesOf(reply.lines, "completed") = {}

\* the discovery cost of project p: the stored discovery tokens of its
\* observations, summed
DiscoveryCost(p) ==
  SumSeq([i \in DOMAIN observations |->
            IF i \in FetchedOf(p) THEN observations[i].discovery_tokens ELSE 0])

\* the display cost of project p: the tokens to read its observations
DisplayCost(p) ==
  SumSeq([i \in DOMAIN observations |->
            IF i \in FetchedOf(p) THEN CeilDiv(CountedSize(i), CharsPerToken)
            ELSE 0])

\* C22: a digest of get_context(p) has the savings line exactly when
\* savings = discovery cost - display cost is above zero, and the footer
\* sentence exactly then too; the savings line states that difference
C22_SavingsAndFooter ==
  \A p \in Projects : \A d \in generateContext(p) :
    LET savings == DiscoveryCost(p) - DisplayCost(p)
    IN /\ (LinesOf(d, "savings") # {}) <=> (savings > 0)
       /\ (LinesOf(d, "footer") # {}) <=> (savings > 0)
       /\ \A l \in LinesOf(d, "savings") : l.tokens = savings

\* one observation of 40 discovery tokens that costs 10 to read: the digest
\* has the savings line, of 30 tokens, and the footer
C22_Witness ==
  /\ reply.op = "get_context"
  /\ reply.status = 200
  /\ reply.project = "demo"
  /\ DiscoveryCost("demo") = 40
  /\ DisplayCost("demo") = 10
  /\ \E l \in LinesOf(reply.lines, "savings") : l.tokens = 30
  /\ LinesOf(reply.lines, "footer") # {}

\* line is the first line of message msg
IsFirstLineOf(line, msg) ==
  /\ Len(line) <= Len(msg)
  /\ line = SubSeq(msg, 1, Len(line))
  /\ \A i \in 1..Len(line) : SubSeq(line, i, i) # "\n"
  /\ Len(line) < Len(msg) => SubSeq(msg, Len(line) + 1, Len(line) + 1) = "\n"

\* text is the first n characters of message msg, all of it when shorter
IsCutOf(text, msg, n) ==
  /\ Len(text) = IF Len(msg) < n THEN Len(msg) ELSE n
  /\ text = SubSeq(msg, 1, Len(text))

\* row is the fallback summary of the messages of body b for project p
IsFallbackSummary(row, b, p) ==
  LET from == IF Truthy(b.last_user_message) THEN b.last_user_message
              ELSE b.last_assistant_message
  IN /\ row.session_id = b.claudeSessionId
     /\ row.project = p
     /\ \E n \in 0..Len(from) :
          /\ IsFirstLineOf(SubSeq(from, 1, n), from)
          /\ IsCutOf(row.request, SubSeq(from, 1, n), RequestLineMax)
     /\ IsCutOf(row.completed, b.last_assistant_message, CompletedMax)
     /\ row.investigated = Null
     /\ row.learned = Null
     /\ row.next_steps = Null
     /\ row.notes = Null

\* the step is a finalize_summary of body b answered with success
FinalizedStep(b) ==
  /\ served' = served + 1
  /\ reply'.op = "finalize_summary"
  /\ reply'.status = 200
  /\ reply'.body = b

\* the step appends one summary row, the fallback summary of body b
StoresFallbackSummary(b) ==
  /\ Len(session_summaries') = Len(session_summaries) + 1
  /\ SubSeq(session_summaries', 1, Len(session_summaries)) = session_summaries
  /\ IsFallbackSummary(session_summaries'[Len(session_summaries')], b,
                       sessions[FirstRowOf(sessions, b.claudeSessionId)].project)

FilteredTools == {"Read", "LS", "Glob"}

\* the step is a record_observation of body b answered with success
RecordedStep(b) ==
  /\ served' = served + 1
  /\ reply'.op = "record_observation"
  /\ reply'.status = 200
  /\ reply'.body = b

\* the step appends exactly one observation row, of session sid
StoresOneObservation(sid) ==
  /\ Len(observations') = Len(observations) + 1
  /\ SubSeq(observations', 1, Len(observations)) = observations
  /\ observations'[Len(observations')].session_id = sid

\* C24: record_observation for one of the filtered tools Read, LS and Glob
\* stores no observation row; for every other tool it stores exactly one
\* row, of the session (the engine not failing)
C24_OnlyFilteredDropped ==
  [][\A b \in AllObsBodies :
       RecordedStep(b) =>
         IF b.tool_name \in FilteredTools
         THEN observations' = observations
         ELSE ~reply'.logged => StoresOneObservation(b.claudeSessionId)]_vars

\* name is the last component of path
IsBasenameOf(name, path) ==
  /\ Len(name) > 0
  /\ \A i \in 1..Len(name) : SubSeq(name, i, i) # "/"
  /\ Len(path) > Len(name)
  /\ SubSeq(path, Len(path) - Len(name), Len(path)) = "/" \o name

\* row is the observation derived from the tool use of body b
IsDerivedFrom(row, b) ==
  LET input == b.tool_input
  IN /\ IF "file_path" \in DOMAIN input
        THEN /\ \E n \in 1..Len(input.file_path) :
                  LET name == SubSeq(input.file_path,
                                     Len(input.file_path) - n + 1,
                                     Len(input.file_path))
                  IN /\ IsBasenameOf(name, input.file_path)
                     /\ row.title = "Modified " \o name
             /\ input.file_path \in Range(JSONparse(row.files_modified))
        ELSE IF "command" \in DOMAIN input
        THEN \E text \in {SubSeq(input.command, 1, n) :
                            n \in 0..Len(input.command)} :
               /\ IsCutOf(text, input.command, CommandTitleMax)
               /\ row.title = "Executed: " \o text
        ELSE row.title = b.tool_name
     /\ JSONparse(row.facts) = <<>>
     /\ JSONparse(row.files_read) = <<>>

\* C25: the observation record_observation stores is derived from the tool
\* input: with a file_path its title is "Modified " and the basename of the
\* path and its files_modified hold the path; with a command and no
\* file_path its title is "Executed: " and the first 40 characters of the
\* command; otherwise its title is the tool name; its facts and files_read
\* are empty sequences
C25_DerivedObservation ==
  [][\A b \in AllObsBodies :
       (RecordedStep(b) /\ reply'.stored) =>
         /\ StoresOneObservation(b.claudeSessionId)
         /\ IsDerivedFrom(observations'[Len(observations')], b)]_vars

\* an Edit of a file, a Bash run of a command of more than 40 characters
\* and a WebFetch were recorded, in this order
C25_Witness ==
  /\ Len(observations) = 3
  /\ observations[1].title = "Modified auth.js"
  /\ observations[1].files_modified = "[\"/repo/demo/src/auth.js\"]"
  /\ observations[2].title = "Executed: " \o SubSeq(LongCommand, 1, CommandTitleMax)
  /\ Len(LongCommand) > CommandTitleMax
  /\ observations[3].title = "WebFetch"
  /\ observations[3].facts = "[]"
  /\ observations[3].files_read = "[]"
  /\ reply.op = "record_observation"
  /\ reply.body.tool_name = "WebFetch"

\* the answers of the three write requests
WriteOps == {"init_session", "record_observation", "finalize_summary"}

\* the body of a write request lacks an identifier the request requires
LacksIdentifier(op, body) ==
  IF op = "init_session"
  THEN ~Truthy(body.sessionId) \/ ~Truthy(body.project)
  ELSE ~Truthy(body.claudeSessionId)

\* C26: a write request without a required identifier (init_session without
\* session id or project, record_observation or finalize_summary without
\* session id) is answered as rejected, and its step changes nothing: no
\* table, no counter, no pending queue, no record of an answered write
C26_RejectedUnapplied ==
  [][(reply' # reply /\ reply'.op \in WriteOps
      /\ LacksIdentifier(reply'.op, reply'.body)) =>
        /\ reply'.status = 400
        /\ UNCHANGED <<dbVars, workerVars, histVars>>]_vars

\* with a session, an observation and a summary in the store, an
\* init_session without project has just been rejected
C26_Witness ==
  /\ reply.op = "init_session"
  /\ reply.status = 400
  /\ reply.body = InitBody("s1", Null, "fix login")
  /\ Len(sessions) = 1
  /\ sessions[1].prompt_counter = 1
  /\ Len(observations) = 1
  /\ Len(session_summaries) = 1

\* C27: whenever record_observation answers success for a tool use its
\* filter lets through, the observation row of that tool use is stored: a
\* failure of the engine to store it is not answered with success
C27_NoSilentLoss ==
  [][\A b \in AllObsBodies :
       (RecordedStep(b) /\ ~Skipped(b.tool_name)) =>
         /\ ~reply'.logged
         /\ StoresOneObservation(b.claudeSessionId)]_vars

\* the number that tags a record of session sid stored now: the session's
\* prompt counter as it stands, and 1 without a session or with counter 0
CurrentPromptNumber(sid) ==
  IF getPromptCounter(sid) = 0 THEN 1 ELSE getPromptCounter(sid)

\* C28: the observation stored by record_observation and the summary
\* stored by finalize_summary carry the prompt counter the session had
\* when the request came in, or 1 when it had none or had 0, and the
\* counter is left as it was: no stored prompt_number is 0 or null
C28_PromptNumberTag ==
  [][/\ \A b \in AllObsBodies :
          (RecordedStep(b) /\ reply'.stored) =>
            LET sid == b.claudeSessionId
            IN /\ observations'[Len(observations')].prompt_number
                    = CurrentPromptNumber(sid)
               /\ observations'[Len(observations')].prompt_number >= 1
               /\ getPromptCounter(sid)' = getPromptCounter(sid)
     /\ \A b \in SumBodies :
          (FinalizedStep(b) /\ Len(session_summaries') > Len(session_summaries)) =>
            LET sid == b.claudeSessionId
            IN /\ session_summaries'[Len(session_summaries')].prompt_number
                    = CurrentPromptNumber(sid)
               /\ session_summaries'[Len(session_summaries')].prompt_number >= 1
               /\ getPromptCounter(sid)' = getPromptCounter(sid)]_vars

\* text carries one of the two tags
Tagged(text) == Includes(text, PrivateTag) \/ Includes(text, ContextTag)

\* the text columns of the tables
SessionTexts == {"user_prompt"}
PromptTexts == {"prompt_text"}
ObservationTexts ==
  {"title", "subtitle", "narrative", "facts", "concepts", "files_read",
   "files_modified"}
SummaryTexts ==
  {"request", "investigated", "learned", "completed", "next_steps", "notes"}

\* no stored text carries a tag
NothingTaggedStored ==
  /\ \A i \in DOMAIN sessions : \A c \in SessionTexts : ~Tagged(sessions[i][c])
  /\ \A i \in DOMAIN user_prompts :
       \A c \in PromptTexts : ~Tagged(user_prompts[i][c])
  /\ \A i \in DOMAIN observations :
       \A c \in ObservationTexts : ~Tagged(observations[i][c])
  /\ \A i \in DOMAIN session_summaries :
       \A c \in SummaryTexts : ~Tagged(session_summaries[i][c])

\* the tool use carries a tag in its input or in its response
TaggedToolUse(i) ==
  \/ \E k \in DOMAIN i.tool_input : Tagged(i.tool_input[k])
  \/ Tagged(i.tool_response)

\* C29: private content never reaches storage: no stored text carries a
\* <private> or <claude-memory-context> tag, and the save hook run for a
\* tool use whose input or response carries one sends no request: its step
\* stores no observation and creates no pending-queue entry
C29_PrivateNeverStored ==
  [][/\ NothingTaggedStored'
     /\ \A i \in SaveHookInputs :
          TaggedToolUse(i) =>
            /\ ~(served' = served + 1 /\ reply'.op = "record_observation"
                 /\ reply'.body = BodyOfToolUse(i))
            /\ (reply' # reply /\ reply'.op = "save_hook" /\ reply'.input = i)
                 => UNCHANGED <<dbVars, workerVars>>]_vars

\* no row of table sessions has session id sid
NoSessionRow(sid) == \A i \in DOMAIN sessions : sessions[i].session_id # sid

\* the ids get_observation is asked for
AskedIds == 1..(MaxRecords + 1)

\* C30: getSession of a session id without a row and getObservationById of
\* an id without a row return absent; get_observation of such an id
\* answers not-found; finalize_summary for a session id without a row
\* answers not-found; and these answers change nothing: no summary stored,
\* no session created, nothing marked completed
C30_ExplicitAbsence ==
  [][/\ \A sid \in SessionIds : NoSessionRow(sid) => ~getSession(sid).found
     /\ \A id \in AskedIds :
          id \notin DOMAIN observations => ~getObservationById(id).found
     /\ (reply' # reply /\ reply'.op = "get_observation"
         /\ reply'.id \notin DOMAIN observations) =>
           /\ reply'.status = 404
           /\ UNCHANGED <<dbVars, workerVars>>
     /\ (reply' # reply /\ reply'.op = "finalize_summary"
         /\ Truthy(reply'.body.claudeSessionId)
         /\ NoSessionRow(reply'.body.claudeSessionId)) =>
           /\ reply'.status = 404
           /\ UNCHANGED <<dbVars, workerVars>>]_vars

\* with session "s1" and one observation in the store, finalize_summary for
\* "s2", which has no row, has just been answered not-found, and
\* observation 2 does not exist
C30_Witness ==
  /\ reply.op = "finalize_summary"
  /\ reply.status = 404
  /\ reply.body.claudeSessionId = "s2"
  /\ NoSessionRow("s2")
  /\ ~NoSessionRow("s1")
  /\ Len(observations) = 1
  /\ ~getObservationById(2).found
  /\ session_summaries = <<>>

\* the answers of the read operations
ReadOps ==
  {"get_context", "search", "get_observation", "list_projects", "getSession",
   "getRecentObservations", "getRecentSummaries"}

\* no two observations and no two summaries of project p were stored in
\* the same instant
NoEpochTies(p) ==
  /\ \A i, j \in RowsOfProject(observations, p) :
       i # j => observations[i].created_at_epoch # observations[j].created_at_epoch
  /\ \A i, j \in RowsOfProject(session_summaries, p) :
       i # j => session_summaries[i].created_at_epoch
                  # session_summaries[j].created_at_epoch

\* a digest has been returned for a project
DigestReply(r) == r.op = "get_context" /\ r.status = 200

\* C31: a step of get_context, search, get_observation, list_projects,
\* getSession, getRecentObservations or getRecentSummaries leaves the
\* sessions, the observations, the summaries, the prompt log and the index
\* as they were; a returned digest is a digest of the tables as they
\* were before the request, whatever the time, and a digest returned right
\* after a digest of the same project is the same text whenever the order
\* of the project's records is settled by their epochs
C31_ReadsReadOnly ==
  [][/\ reply'.op \in ReadOps => UNCHANGED dbVars
     /\ DigestReply(reply') =>
          reply'.lines \in generateContext(reply'.project)
     /\ (/\ DigestReply(reply)
         /\ DigestReply(reply')
         /\ reply'.project = reply.project
         /\ NoEpochTies(reply.project)) => reply'.lines = reply.lines]_vars

\* a digest of "demo" with two observations of different instants and a
\* summary has just been returned, the only digest that state has
C31_Witness ==
  /\ reply.op = "get_context"
  /\ reply.status = 200
  /\ reply.project = "demo"
  /\ Len(observations) = 2
  /\ observations[1].project = "demo"
  /\ observations[2].project = "demo"
  /\ observations[1].created_at_epoch < observations[2].created_at_epoch
  /\ generateContext("demo") = {reply.lines}
  /\ Cardinality(LinesOf(reply.lines, "row")) = 2

C32_EmptyLeftOut ==
  /\ reply.op = "list_projects"
  /\ reply.projects = <<"demo">>
  /\ Len(sessions) = 2
  /\ sessions[1].project = ""

\* the record of a block with nothing in it
BlankRecord ==
  [type |-> "change", title |-> Null, subtitle |-> Null, facts |-> <<>>,
   narrative |-> Null, concepts |-> <<>>, files_read |-> <<>>,
   files_modified |-> <<>>]

\* the records the well-formed blocks of a piece stand for, read off the
\* piece by hand
RecordsOf(seg) ==
  CASE seg = FullBlock ->
         <<[type |-> "bugfix", title |-> "Fixed login",
            subtitle |-> "Token refresh",
            facts |-> <<"Expiry was 60s", "Now 3600s">>,
            narrative |-> "The token expired too early",
            concepts |-> <<"auth">>, files_read |-> <<"src/auth.js">>,
            files_modified |-> <<"src/auth.js", "src/token.js">>]>>
    [] seg = TitleOnlyBlock ->
         <<[BlankRecord EXCEPT !.title = "Read config"]>>
    [] seg = UnknownTypeBlock ->
         <<[BlankRecord EXCEPT !.title = "Renamed helper"]>>
    [] seg = SpacedBlock ->
         <<[BlankRecord EXCEPT !.type = "discovery",
                               !.narrative = "Found cache",
                               !.files_modified = <<"src/cache.js">>]>>
    [] seg = EmptyBlock -> <<BlankRecord>>
    [] OTHER -> <<>>

RECURSIVE RecordsOfAll(_)
RecordsOfAll(segs) ==
  IF segs = <<>> THEN <<>> ELSE RecordsOf(Head(segs)) \o RecordsOfAll(Tail(segs))

IsSequence(x) == DOMAIN x = 1..Len(x)

\* parseObservations has returned
Parsed == reply.op = "parseObservations"

\* C33: the records parseObservations returns are the records of the
\* well-formed blocks of its text, in the order of the text, each with the
\* title, subtitle and narrative of its block, a type among the six (change
\* for a missing or unknown one) and four sequences
C33_ParsedBlocks ==
  Parsed =>
    /\ reply.ret = RecordsOfAll(reply.segs)
    /\ \A i \in DOMAIN reply.ret :
         /\ reply.ret[i].type \in ValidTypes
         /\ \A col \in ArrayColumns : IsSequence(reply.ret[i][col])

\* no block follows an opening tag that was never closed
NoneAfterUnclosed(segs) ==
  \A i, j \in DOMAIN segs :
    (i < j /\ segs[i] \in {UnclosedTitle, Unclosed}) => RecordsOf(segs[j]) = <<>>

\* the statement of C33 for texts where every opening tag before a block is
\* closed
C33_ClosedBlocks == NoneAfterUnclosed(reply.segs) => C33_ParsedBlocks

\* the full block and the block of spaced fields were parsed, in that order
C33_Witness ==
  /\ Parsed
  /\ reply.segs = <<SpacedBlock, FullBlock>>
  /\ Len(reply.ret) = 2
  /\ reply.ret[1].type = "discovery"
  /\ reply.ret[2].facts = <<"Expiry was 60s", "Now 3600s">>

Statuses == {"active", "completed", "failed"}

\* the step is a finalize_summary that was answered 200 or a
\* markSessionCompleted of the session
CompletingStep(sid) ==
  \/ /\ served' = served + 1
     /\ reply'.op = "finalize_summary"
     /\ reply'.status = 200
     /\ reply'.body.claudeSessionId = sid
  \/ /\ reply'.op = "markSessionCompleted"
     /\ reply'.sid = sid

\* C34: no session row is ever removed; a row that appears is active; the
\* status of a row is always active, completed or failed; a row turns
\* completed only in a step of finalize_summary or markSessionCompleted for
\* its session; a completed row stays completed whatever request follows
C34_StatusLifecycle ==
  [][/\ Len(sessions') >= Len(sessions)
     /\ \A i \in DOMAIN sessions' :
          /\ sessions'[i].status \in Statuses
          /\ i \notin DOMAIN sessions => sessions'[i].status = "active"
          /\ i \in DOMAIN sessions =>
               /\ sessions'[i].session_id = sessions[i].session_id
               /\ sessions[i].status = "completed"
                    => sessions'[i].status = "completed"
               /\ (sessions[i].status # "completed"
                   /\ sessions'[i].status = "completed")
                    => CompletingStep(sessions[i].session_id)]_vars

\* init_session for "s1" was answered 200 after the session was completed
\* and had an observation recorded, and the row is still completed
C34_Witness ==
  /\ reply.op = "init_session"
  /\ reply.status = 200
  /\ reply.body.sessionId = "s1"
  /\ getSession("s1").found
  /\ getSession("s1").row.status = "completed"
  /\ getSession("s1").row.prompt_counter = 1
  /\ Len(observations) = 1
  /\ observations[1].session_id = "s1"

\* the project of the session a record belongs to
OwnerProject(row) == sessions[FirstRowOf(sessions, row.session_id)].project

\* C35: every observation and every summary carries the project of its
\* session, and the project of every observation is among the names
\* getAllProjects lists
C35_ProjectAgrees ==
  /\ \A i \in DOMAIN observations :
       /\ HasSession(observations[i].session_id)
       /\ observations[i].project = OwnerProject(observations[i])
       /\ observations[i].project \in Range(getAllProjects)
  /\ \A i \in DOMAIN session_summaries :
       /\ HasSession(session_summaries[i].session_id)
       /\ session_summaries[i].project = OwnerProject(session_summaries[i])

\* every observation, summary and logged prompt of the state refers to a
\* session that has a row
AllReferSessions ==
  /\ \A i \in DOMAIN observations : HasSession(observations[i].session_id)
  /\ \A i \in DOMAIN session_summaries :
       HasSession(session_summaries[i].session_id)
  /\ \A i \in DOMAIN user_prompts : HasSession(user_prompts[i].session_id)

\* the rows of sessions stay, each with its session id
SessionsKept ==
  /\ Len(sessions') >= Len(sessions)
  /\ \A i \in DOMAIN sessions : sessions'[i].session_id = sessions[i].session_id

\* the last call was storeObservation or storeSummary for a session that
\* had no row, with an empty project or none
StoredWithoutProject(r) ==
  /\ r.op \in {"storeObservation", "storeSummary"}
  /\ ~r.existed
  /\ ~Truthy(r.call.project)

\* C36: records refer to sessions that exist, session rows are never
\* removed, and a store call for an absent session with an empty or missing
\* project fails and leaves observations, index, summaries and prompt log
\* as they were
C36_ReferentialIntegrity ==
  [][/\ AllReferSessions'
     /\ SessionsKept
     /\ StoredWithoutProject(reply') =>
          /\ ~reply'.ok
          /\ UNCHANGED <<observations, observations_fts, session_summaries,
                         user_prompts>>]_vars

\* the statement of C36 with the failing store left to calls that give no
\* project at all
C36_MissingProjectFails ==
  [][/\ AllReferSessions'
     /\ SessionsKept
     /\ (StoredWithoutProject(reply') /\ reply'.call.project = Null) =>
          /\ ~reply'.ok
          /\ sessions' = sessions
          /\ UNCHANGED <<observations, observations_fts, session_summaries,
                         user_prompts>>]_vars

\* storeObservation without a project has just failed for the absent "s2"
\* while an observation and a logged prompt of "s1" are stored
C36_Witness ==
  /\ reply.op = "storeObservation"
  /\ reply.call.project = Null
  /\ ~reply.existed
  /\ ~reply.ok
  /\ ~HasSession("s2")
  /\ Len(observations) = 1
  /\ Len(user_prompts) = 1

\* the queue of session s, empty while the worker holds none
QueueOf(q, s) == IF s \in DOMAIN q THEN q[s] ELSE <<>>

\* the step is an init_session of session s answered with success
InitialisedStep(s) ==
  /\ served' = served + 1
  /\ reply'.op = "init_session"
  /\ reply'.status = 200
  /\ reply'.body.sessionId = s

\* the step is a record_observation of session s answered with success
RecordedFor(s) == \E b \in ObsBodies : b.claudeSessionId = s /\ RecordedStep(b)

\* C37: a queue the worker holds stays; an accepted record_observation for
\* s, of a filtered tool or not, stored or failed, puts one entry behind
\* the entries of s; every other step leaves the entries of s as they are;
\* a queue appears only with an accepted record_observation or init_session
\* for s, and after an accepted init_session s has one
C37_QueueOnlyGrows ==
  [][\A s \in SessionIds :
       LET old == QueueOf(pendingObservations, s)
           new == QueueOf(pendingObservations', s)
       IN /\ s \in DOMAIN pendingObservations => s \in DOMAIN pendingObservations'
          /\ IF RecordedFor(s)
             THEN /\ Len(new) = Len(old) + 1
                  /\ SubSeq(new, 1, Len(old)) = old
                  /\ new[Len(new)] = reply'.body.tool_name
             ELSE new = old
          /\ (s \notin DOMAIN pendingObservations
              /\ s \in DOMAIN pendingObservations')
               => (RecordedFor(s) \/ InitialisedStep(s))
          /\ InitialisedStep(s) => s \in DOMAIN pendingObservations']_vars

\* finalize_summary was answered 200 for "s1" after a filtered Read and a
\* Write whose storing failed: no observation is stored, both are queued
C37_Witness ==
  /\ reply.op = "finalize_summary"
  /\ reply.status = 200
  /\ reply.body.claudeSessionId = "s1"
  /\ "s1" \in DOMAIN pendingObservations
  /\ pendingObservations["s1"] = <<"Read", "Write">>
  /\ Len(observations) = 0

\* C38: at most one worker listens on the port; a start() whose listen
\* failed with EADDRINUSE has resolved and its process does not serve, one
\* that failed otherwise has rejected, one that listens has resolved; a
\* hook spawns at most one worker and polls at most MaxPolls times; it
\* returns true only in a step in which a listening worker answered, false
\* only after its last poll or without having spawned, and after it has
\* returned it does nothing more
C38_StartUp ==
  [][/\ Cardinality(Serving') <= 1
     /\ \A w \in DOMAIN workerProcs' :
          /\ workerProcs'[w].error = "EADDRINUSE" =>
               /\ workerProcs'[w].start = "resolved"
               /\ workerProcs'[w].state # "listening"
          /\ workerProcs'[w].error \notin {"none", "EADDRINUSE"} =>
               workerProcs'[w].start = "rejected"
          /\ workerProcs'[w].state = "listening" =>
               workerProcs'[w].start = "resolved"
     /\ Len(workerProcs') <= Cardinality(HookIds)
     /\ \A h \in HookIds :
          /\ hookProcs'[h].spawned <= 1
          /\ hookProcs'[h].polls <= MaxPolls
          /\ (hookProcs[h].result = "none" /\ hookProcs'[h].result = "true")
               => Serving # {}
          /\ (hookProcs[h].result = "none" /\ hookProcs'[h].result = "false")
               => (hookProcs[h].polls = MaxPolls \/ hookProcs[h].spawned = 0)
          /\ hookProcs[h].result # "none" => hookProcs'[h] = hookProcs[h]]_vars

\* both hooks found no worker and spawned one each; the first worker
\* listens, the second met EADDRINUSE and resolved; both hooks returned true
C38_Witness ==
  /\ \A h \in HookIds : hookProcs[h].spawned = 1 /\ hookProcs[h].result = "true"
  /\ Len(workerProcs) = 2
  /\ workerProcs[1].state = "listening"
  /\ workerProcs[2].error = "EADDRINUSE"
  /\ workerProcs[2].start = "resolved"

\* a hook has returned false after its last poll while its worker never
\* came to listen
C38_GaveUp ==
  /\ hookProcs["h1"].result = "false"
  /\ hookProcs["h1"].spawned = 1
  /\ hookProcs["h1"].polls = MaxPolls
  /\ Serving = {}
====
